---- MODULE Spec2Model ----
(***************************************************************************)
(* Model of the OnkyoReceiver protocol client of hass_onkyo_ng             *)
(* (custom_components/hass_onkyo_ng/onkyo.py): the inbound message         *)
(* handler running on the reader thread, the state it merges into, the     *)
(* listeners it hands to the event loop, and the table that correlates     *)
(* awaited commands (raw_async / command_async) with their replies.        *)
(*                                                                         *)
(* Two threads act on one OnkyoReceiver: the reader thread, which calls    *)
(* _on_message_async for each inbound message, and the event loop thread,  *)
(* which runs the awaiting tasks and the scheduled callbacks one at a      *)
(* time.  Each action is one step of one of them.                          *)
(***************************************************************************)
EXTENDS Integers, Sequences, FiniteSets, TLC

\* ------------------------------------------------------------- bounds
\* Inbound messages handled in one behaviour of the handler on its own.
MaxMsgs == 3
\* Inbound messages handled in one behaviour while commands are awaited.
MaxReplies == 2
\* Concurrent raw_async / command_async calls.
MaxWaiters == 2
\* State listeners that get registered.
MaxListeners == 2
\* <zone> and <selector> elements of a generated self-description.
MaxZoneElems == 3
MaxSelectorElems == 2

\* ---------------------------------------------------- program constants
ONKYO_SUPPORTED_MAX_VOLUME == 100
ONKYO_DEFAULT_RECEIVER_MAX_VOLUME == 80

\* --------------------------------------------------------------- values
\* Python values are tagged with their type, so that values of different
\* types compare unequal instead of being incomparable.
PyNone == [t |-> "none", v |-> "None"]
PyStr(s) == [t |-> "str", v |-> s]
PyBool(b) == [t |-> "bool", v |-> b]
PyInt(n) == [t |-> "int", v |-> n]
\* A string kept as the sequence of its characters (a raw payload, a text).
PyChars(s) == [t |-> "chars", v |-> s]
RECURSIVE Gcd(_, _)
Gcd(a, b) == IF b = 0 THEN a ELSE Gcd(b, a % b)
\* A float, kept as the exact quotient num / den in lowest terms (n >= 0, d > 0).
PyFloat(n, d) == [t |-> "float", v |-> <<n \div Gcd(n, d), d \div Gcd(n, d)>>]
PyDict(f) == [t |-> "dict", v |-> f]
PyList(q) == [t |-> "list", v |-> q]
\* A decoded text, kept as the sequence of its code points.
PyText(cps) == [t |-> "text", v |-> cps]
\* A tuple of strings: the aliases of a value of the command table.
PyTuple(q) == [t |-> "tuple", v |-> q]
\* A ReceiverInfo object.
PyInfo(i) == [t |-> "info", v |-> i]
EmptyDict == PyDict([k \in {} |-> PyNone])

\* ------------------------------------------------------------- messages
\* An eISCP message is a string, modelled as the sequence of its characters:
\* message[:3] is SubSeq(m, 1, 3), message[3:] the rest, message[-2:] the
\* last two.
PWR01 == <<"P", "W", "R", "0", "1">>
PWR00 == <<"P", "W", "R", "0", "0">>
ZPW01 == <<"Z", "P", "W", "0", "1">>
MVL28 == <<"M", "V", "L", "2", "8">>
XYZ01 == <<"X", "Y", "Z", "0", "1">>
\* Display text: "AB", a pair that is no hex number, a byte that is no UTF-8.
FLD4142 == <<"F", "L", "D", "4", "1", "4", "2">>
FLD4G == <<"F", "L", "D", "4", "G">>
FLD80 == <<"F", "L", "D", "8", "0">>
\* Receiver information: the XML text is one token, see XmlDocs.
NRI_OK == <<"N", "R", "I", "<xml:ok>">>
NRI_MALFORMED == <<"N", "R", "I", "<xml:malformed>">>
NRI_NOMODEL == <<"N", "R", "I", "<xml:nomodel>">>

Prefix(m) == SubSeq(m, 1, IF Len(m) < 3 THEN Len(m) ELSE 3)
Args(m) == SubSeq(m, 4, Len(m))
LastTwo(m) == SubSeq(m, IF Len(m) < 2 THEN 1 ELSE Len(m) - 1, Len(m))

\* Listening-mode reports of the main zone.
LMD00 == <<"L", "M", "D", "0", "0">>
LMD01 == <<"L", "M", "D", "0", "1">>

\* Reports of the capabilities of the main zone: the receiver answers N/A
\* for what it does not have.  A payload of several characters that the
\* handler only splits at its commas is kept as one token per part.
HDONA == <<"H", "D", "O", "N", "/", "A">>
HDO01 == <<"H", "D", "O", "0", "1">>
IFANA == <<"I", "F", "A", "N", "/", "A">>
IFA_PCM == <<"I", "F", "A", "HDMI 1", ",", "PCM", ",", "48 kHz">>
IFVNA == <<"I", "F", "V", "N", "/", "A">>
\* Source reports: an id of the command table, one that the table does not
\* have, the other zone's, and payloads that are no hex number.
SLI23 == <<"S", "L", "I", "2", "3">>
SLI7F == <<"S", "L", "I", "7", "F">>
SLZ02 == <<"S", "L", "Z", "0", "2">>
SLINA == <<"S", "L", "I", "N", "/", "A">>

\* Commands a caller awaits: command_to_iscp of "<zone>.<name>=query".
PWRQSTN == <<"P", "W", "R", "Q", "S", "T", "N">>
MVLQSTN == <<"M", "V", "L", "Q", "S", "T", "N">>

\* ---------------------------------------------------------------- codec
HexDigits ==
    [c \in {"0", "1", "2", "3", "4", "5", "6", "7", "8", "9",
            "a", "b", "c", "d", "e", "f", "A", "B", "C", "D", "E", "F"} |->
        CASE c = "0" -> 0 [] c = "1" -> 1 [] c = "2" -> 2 [] c = "3" -> 3
          [] c = "4" -> 4 [] c = "5" -> 5 [] c = "6" -> 6 [] c = "7" -> 7
          [] c = "8" -> 8 [] c = "9" -> 9
          [] c \in {"a", "A"} -> 10 [] c \in {"b", "B"} -> 11
          [] c \in {"c", "C"} -> 12 [] c \in {"d", "D"} -> 13
          [] c \in {"e", "E"} -> 14 [] c \in {"f", "F"} -> 15]

IsHex(s) == Len(s) > 0 /\ \A i \in 1..Len(s) : s[i] \in DOMAIN HexDigits

RECURSIVE HexValue(_)
\* int(s, 16) of a string of hex digits.
HexValue(s) ==
    IF Len(s) = 0 THEN 0
    ELSE 16 * HexValue(SubSeq(s, 1, Len(s) - 1)) + HexDigits[s[Len(s)]]

\* The command table of the eiscp library, for the prefixes the model uses:
\* prefix -> zone, command name, and the names of its enumerated values.
COMMANDS ==
    [p \in {<<"P", "W", "R">>, <<"Z", "P", "W">>, <<"M", "V", "L">>, <<"A", "M", "T">>,
            <<"F", "L", "D">>, <<"N", "R", "I">>, <<"L", "M", "D">>, <<"I", "F", "A">>,
            <<"I", "F", "V">>, <<"H", "D", "O">>, <<"S", "L", "I">>, <<"S", "L", "Z">>} |->
        CASE p = <<"P", "W", "R">> ->
               [zone |-> "main", name |-> "system-power",
                values |-> [a \in {<<"0", "0">>, <<"0", "1">>} |->
                              IF a = <<"0", "1">> THEN "on" ELSE "standby"]]
          [] p = <<"Z", "P", "W">> ->
               [zone |-> "zone2", name |-> "power",
                values |-> [a \in {<<"0", "0">>, <<"0", "1">>} |->
                              IF a = <<"0", "1">> THEN "on" ELSE "standby"]]
          [] p = <<"M", "V", "L">> ->
               [zone |-> "main", name |-> "master-volume",
                values |-> [a \in {<<"U", "P">>} |-> "level-up"]]
          [] p = <<"A", "M", "T">> ->
               [zone |-> "main", name |-> "audio-muting",
                values |-> [a \in {<<"0", "0">>, <<"0", "1">>} |->
                              IF a = <<"0", "1">> THEN "on" ELSE "off"]]
          [] p = <<"L", "M", "D">> ->
               [zone |-> "main", name |-> "listening-mode",
                values |-> [a \in {<<"0", "0">>, <<"0", "1">>} |->
                              IF a = <<"0", "1">> THEN "direct" ELSE "stereo"]]
          [] p = <<"I", "F", "A">> ->
               [zone |-> "main", name |-> "audio-information",
                values |-> [a \in {<<"Q", "S", "T", "N">>} |-> "query"]]
          [] p = <<"I", "F", "V">> ->
               [zone |-> "main", name |-> "video-information",
                values |-> [a \in {<<"Q", "S", "T", "N">>} |-> "query"]]
          [] p = <<"H", "D", "O">> ->
               [zone |-> "main", name |-> "hdmi-output-selector",
                values |-> [a \in {<<"0", "0">>, <<"0", "1">>} |->
                              IF a = <<"0", "1">> THEN <<"yes", "out">>
                              ELSE <<"no", "analog">>]]
          [] p = <<"S", "L", "I">> ->
               [zone |-> "main", name |-> "input-selector",
                values |-> [a \in {<<"2", "3">>, <<"2", "B">>} |->
                              IF a = <<"2", "3">> THEN <<"cd", "tv/cd">>
                              ELSE <<"network", "net">>]]
          [] p = <<"S", "L", "Z">> ->
               [zone |-> "zone2", name |-> "selector",
                values |-> [a \in {<<"0", "2">>, <<"2", "3">>} |->
                              IF a = <<"2", "3">> THEN <<"cd", "tv/cd">>
                              ELSE <<"video3", "game/tv", "game", "game1">>]]
          [] p = <<"F", "L", "D">> ->
               [zone |-> "main", name |-> "fl-display-information",
                values |-> [a \in {<<"Q", "S", "T", "N">>} |-> "query"]]
          [] p = <<"N", "R", "I">> ->
               [zone |-> "dock", name |-> "receiver-information",
                values |-> [a \in {<<"Q", "S", "T", "N">>} |-> "query"]]]

\* The commands whose values the table names with a tuple of aliases.
AliasedCommands == {"hdmi-output-selector", "input-selector", "selector"}

\* iscp_to_command(message, with_zone=True): ValueError for a prefix that is
\* in no zone's table; an enumerated value decodes to its name (a string or
\* a tuple of aliases), any other hex payload to its number, anything else
\* to the raw payload.
iscp_to_command(m) ==
    IF Prefix(m) \notin DOMAIN COMMANDS
    THEN [err |-> "ValueError", zone |-> "", command |-> "", attrib |-> PyNone]
    ELSE LET c == COMMANDS[Prefix(m)]
         IN  [err |-> "",
              zone |-> c.zone,
              command |-> c.name,
              attrib |-> IF Args(m) \in DOMAIN c.values
                         THEN IF c.name \in AliasedCommands THEN PyTuple(c.values[Args(m)])
                              ELSE PyStr(c.values[Args(m)])
                         ELSE IF IsHex(Args(m)) THEN PyInt(HexValue(Args(m)))
                         ELSE PyChars(Args(m))]

\* ------------------------------------------------- self-description XML
\* The XML text of a receiver-information message is one token of the
\* message; XmlDocs gives the document each token stands for.  An element's
\* text is a string, an attribute the sequence of its characters; "<absent>"
\* marks a missing element or attribute.
AbsentText == "<absent>"
AbsentAttr == <<"<absent>">>

DecDigits == {"0", "1", "2", "3", "4", "5", "6", "7", "8", "9"}
IsDec(s) == Len(s) > 0 /\ \A i \in 1..Len(s) : s[i] \in DecDigits

RECURSIVE DecValue(_)
\* int(s) of a string of decimal digits.
DecValue(s) ==
    IF Len(s) = 0 THEN 0
    ELSE 10 * DecValue(SubSeq(s, 1, Len(s) - 1)) + HexDigits[s[Len(s)]]

RECURSIVE Pow2(_)
Pow2(n) == IF n <= 0 THEN 1 ELSE 2 * Pow2(n - 1)

\* Variant: the bit of the zone id itself, 1 << zone_id.
BitSetShifted(mask, zone_id) == (mask \div Pow2(zone_id)) % 2 = 1

\* source_zones & (1 << (zone_id - 1)), for zone_id >= 1.
BitSet(mask, zone_id) == (mask \div Pow2(zone_id - 1)) % 2 = 1

\* str.lower() of the zone names the documents use.
Lower(name) ==
    CASE name = "Main" -> "main"
      [] name = "Zone2" -> "zone2"
      [] name = "Zone3" -> "zone3"
      [] name = "Zone4" -> "zone4"
      [] OTHER -> name

\* int(attrib[key]) / int(attrib[key], 16): the exception it raises, or "".
IntAttrErr(a, hex) ==
    IF a = AbsentAttr THEN "KeyError"
    ELSE IF (hex /\ ~IsHex(a)) \/ (~hex /\ ~IsDec(a)) THEN "ValueError"
    ELSE ""

FirstOf(errs) ==
    LET bad == {i \in 1..Len(errs) : errs[i] # ""}
    IN  IF bad = {} THEN "" ELSE errs[CHOOSE i \in bad : \A j \in bad : i <= j]

\* The first exception raised while one <zone> element is read (lines 66-70).
ZoneElemErr(z) ==
    IF IntAttrErr(z.value, FALSE) # "" THEN IntAttrErr(z.value, FALSE)
    ELSE IF DecValue(z.value) > 0
    THEN FirstOf(<<IntAttrErr(z.id, TRUE),
                   IF z.name = AbsentText THEN "KeyError" ELSE "",
                   IntAttrErr(z.volmax, FALSE)>>)
    ELSE ""

\* The first exception raised while one <selector> element is read (lines
\* 77-87): 1 << (zone_id - 1) raises ValueError for an installed zone id 0.
SelectorElemErr(s, zoneIds) ==
    IF IntAttrErr(s.value, FALSE) # "" THEN IntAttrErr(s.value, FALSE)
    ELSE IF DecValue(s.value) > 0
    THEN FirstOf(<<IntAttrErr(s.id, TRUE),
                   IF s.name = AbsentText THEN "KeyError" ELSE "",
                   IntAttrErr(s.zone, TRUE),
                   IF \E i \in 1..Len(zoneIds) : zoneIds[i] = 0 THEN "ValueError" ELSE "">>)
    ELSE ""

\* Variant: every <zone> element, whatever its value.
AllZoneElems(doc) == doc.zones

\* The <zone> elements with value > 0, in document order (lines 65-73).
InstalledZones(doc) == SelectSeq(doc.zones, LAMBDA z : DecValue(z.value) > 0)
InstalledSelectors(doc) == SelectSeq(doc.selectors, LAMBDA s : DecValue(s.value) > 0)

\* Variant: a zone_map that keeps one key per installed <zone> element.
ZoneMapKeysAll(zs) == [i \in 1..Len(zs) |-> HexValue(zs[i].id)]

\* zone_map.keys(): the installed zone ids in order of first insertion.
RECURSIVE ZoneMapKeys(_)
ZoneMapKeys(zs) ==
    IF Len(zs) = 0 THEN <<>>
    ELSE LET before == ZoneMapKeys(SubSeq(zs, 1, Len(zs) - 1))
             id == HexValue(zs[Len(zs)].id)
         IN  IF \E i \in 1..Len(before) : before[i] = id THEN before
             ELSE Append(before, id)

\* zone_map[zone_id]: the zone object stored last under that id, named by its
\* position in the zones list.
ZoneMapAt(zs, id) ==
    CHOOSE i \in 1..Len(zs) :
        /\ HexValue(zs[i].id) = id
        /\ \A j \in 1..Len(zs) : HexValue(zs[j].id) = id => j <= i

\* receiver_source.zones of one selector (lines 83-86): positions in the
\* zones list, in zone_map key order.
SourceZones(s, zs) ==
    LET keys == ZoneMapKeys(zs)
        hit == SelectSeq(keys, LAMBDA k : BitSet(HexValue(s.zone), k))
    IN  [i \in 1..Len(hit) |-> ZoneMapAt(zs, hit[i])]

\* ReceiverInfo.from_xml: the exception raised, or the ReceiverInfo.  Zones
\* and sources refer to each other by position in the zones / sources list.
from_xml(doc) ==
    LET zoneErrs == [i \in 1..Len(doc.zones) |-> ZoneElemErr(doc.zones[i])]
        err1 == FirstOf(<<IF ~doc.wellformed THEN "ParseError" ELSE "",
                          IF ~doc.device THEN "AttributeError" ELSE "",
                          IF doc.model = AbsentText THEN "AttributeError" ELSE "",
                          IF doc.deviceserial = AbsentText THEN "AttributeError" ELSE "",
                          IF doc.productid = AbsentText THEN "AttributeError" ELSE "",
                          IF doc.macaddress = AbsentText THEN "AttributeError" ELSE "",
                          IF ~doc.zonelist THEN "AttributeError" ELSE "",
                          FirstOf(zoneErrs),
                          IF ~doc.selectorlist THEN "AttributeError" ELSE "">>)
    IN  IF err1 # "" THEN [err |-> err1, info |-> <<>>]
        ELSE
        LET zs == InstalledZones(doc)
            keys == ZoneMapKeys(zs)
            selErrs == [i \in 1..Len(doc.selectors) |-> SelectorElemErr(doc.selectors[i], keys)]
        IN  IF FirstOf(selErrs) # "" THEN [err |-> FirstOf(selErrs), info |-> <<>>]
            ELSE
            LET ss == InstalledSelectors(doc)
                srcZones == [j \in 1..Len(ss) |-> SourceZones(ss[j], zs)]
                InZones(j, i) == \E k \in 1..Len(srcZones[j]) : srcZones[j][k] = i
                \* zone.sources: the sources appended to the zone object,
                \* in selector order.
                zoneSources == [i \in 1..Len(zs) |->
                                  SelectSeq([j \in 1..Len(ss) |-> j], LAMBDA j : InZones(j, i))]
            IN  [err |-> "",
                 info |-> [model |-> doc.model,
                           serial |-> doc.deviceserial,
                           productid |-> doc.productid,
                           macaddress |-> doc.macaddress,
                           zones |-> [i \in 1..Len(zs) |->
                                        [id |-> HexValue(zs[i].id),
                                         name |-> Lower(zs[i].name),
                                         volmax |-> DecValue(zs[i].volmax),
                                         sources |-> zoneSources[i]]],
                           sources |-> [j \in 1..Len(ss) |->
                                          [id |-> HexValue(ss[j].id),
                                           name |-> ss[j].name,
                                           zones |-> srcZones[j]]]]]

\* ---------------------------------------------------------- display text
\* re.findall('..', payload): the non-overlapping pairs, a trailing odd
\* character dropped.
Pairs(s) == [i \in 1..(Len(s) \div 2) |-> SubSeq(s, 2 * i - 1, 2 * i)]

IsCont(b) == b >= 128 /\ b <= 191

RECURSIVE Utf8Decode(_)
\* bytes.decode('utf-8'): [ok, cps]; ok is FALSE where UnicodeDecodeError is
\* raised.
Utf8Decode(bs) ==
    IF Len(bs) = 0 THEN [ok |-> TRUE, cps |-> <<>>]
    ELSE
    LET b == bs[1]
        n == IF b < 128 THEN 1
             ELSE IF b >= 194 /\ b <= 223 THEN 2
             ELSE IF b >= 224 /\ b <= 239 THEN 3
             ELSE IF b >= 240 /\ b <= 244 THEN 4
             ELSE 0
        lo2 == IF b = 224 THEN 160 ELSE IF b = 240 THEN 144 ELSE 128
        hi2 == IF b = 237 THEN 159 ELSE IF b = 244 THEN 143 ELSE 191
        valid == /\ n > 0
                 /\ Len(bs) >= n
                 /\ n >= 2 => (bs[2] >= lo2 /\ bs[2] <= hi2)
                 /\ \A i \in 3..n : IsCont(bs[i])
        cp == CASE n = 1 -> b
                [] n = 2 -> (b - 192) * 64 + (bs[2] - 128)
                [] n = 3 -> (b - 224) * 4096 + (bs[2] - 128) * 64 + (bs[3] - 128)
                [] OTHER -> (b - 240) * 262144 + (bs[2] - 128) * 4096
                            + (bs[3] - 128) * 64 + (bs[4] - 128)
    IN  IF ~valid THEN [ok |-> FALSE, cps |-> <<>>]
        ELSE LET rest == Utf8Decode(SubSeq(bs, n + 1, Len(bs)))
             IN  [ok |-> rest.ok, cps |-> IF rest.ok THEN <<cp>> \o rest.cps ELSE <<>>]

\* Lines 278-281: the display text of a message, or the exception raised
\* (a non-hex pair and an undecodable byte both raise a ValueError).
DisplayText(m) ==
    LET pairs == Pairs(Args(m))
    IN  IF \E i \in 1..Len(pairs) : ~IsHex(pairs[i])
        THEN [err |-> "ValueError", text |-> PyNone]
        ELSE LET dec == Utf8Decode([i \in 1..Len(pairs) |-> HexValue(pairs[i])])
             IN  IF dec.ok THEN [err |-> "", text |-> PyText(dec.cps)]
                 ELSE [err |-> "ValueError", text |-> PyNone]

\* A complete self-description: two installed zones, one absent zone, a
\* source wired into both installed zones and an absent source.
DocOk ==
    [wellformed |-> TRUE, device |-> TRUE, model |-> "TX-NR609",
     deviceserial |-> "0009B0C11111", productid |-> "2", macaddress |-> "0009B0C11111",
     zonelist |-> TRUE,
     zones |-> <<[value |-> <<"1">>, id |-> <<"1">>, name |-> "Main", volmax |-> <<"8", "0">>],
                 [value |-> <<"1">>, id |-> <<"2">>, name |-> "Zone2", volmax |-> <<"8", "0">>],
                 [value |-> <<"0">>, id |-> <<"3">>, name |-> "Zone3", volmax |-> <<"0">>]>>,
     selectorlist |-> TRUE,
     selectors |-> <<[value |-> <<"1">>, id |-> <<"2", "3">>, name |-> "CD", zone |-> <<"0", "3">>],
                     [value |-> <<"0">>, id |-> <<"2", "4">>, name |-> "TUNER", zone |-> <<"0", "1">>]>>]

XmlDocs ==
    [tok \in {"<xml:ok>", "<xml:malformed>", "<xml:nomodel>"} |->
        CASE tok = "<xml:ok>" -> DocOk
          [] tok = "<xml:malformed>" -> [DocOk EXCEPT !.wellformed = FALSE]
          [] tok = "<xml:nomodel>" -> [DocOk EXCEPT !.model = AbsentText]]

\* The document of a receiver-information payload; a payload that is no
\* document token is text the XML parser rejects.
XmlOf(payload) ==
    IF Len(payload) = 1 /\ payload[1] \in DOMAIN XmlDocs THEN XmlDocs[payload[1]]
    ELSE [DocOk EXCEPT !.wellformed = FALSE]

\* ------------------------------------------------------ message handler
ZONE_NAMES == <<"main", "zone2", "zone3", "zone4">>
ZoneKey(zone) ==
    CASE zone = "main" -> "zone_main"
      [] zone = "zone2" -> "zone_zone2"
      [] zone = "zone3" -> "zone_zone3"
      [] zone = "zone4" -> "zone_zone4"
ZoneKeys == {ZoneKey(ZONE_NAMES[i]) : i \in 1..Len(ZONE_NAMES)}

\* OnkyoReceiver.data after __init__ (lines 150-166).
InitData ==
    PyDict([k \in {"preset", "hdmi_out", "receiver_information"} \cup ZoneKeys |->
        IF k = "receiver_information" THEN EmptyDict
        ELSE IF k \in ZoneKeys
        THEN PyDict([a \in {"power", "audio_info", "video_info", "mute", "volume",
                            "source", "sound_mode", "sound_mode_list"} |->
                       IF a = "sound_mode_list" THEN PyList(<<>>) ELSE PyNone])
        ELSE PyNone])

\* updates[zone_key][attr] = value on the empty defaultdict(dict).
ZoneUpdate(zone, attr, value) ==
    [k \in {ZoneKey(zone)} |-> PyDict([a \in {attr} |-> value])]
NoUpdates == [k \in {} |-> PyNone]

RECURSIVE SplitComma(_)
\* str.split(",") on a string kept as the sequence of its tokens.
SplitComma(s) ==
    IF \A i \in 1..Len(s) : s[i] # "," THEN <<s>>
    ELSE LET i == CHOOSE j \in 1..Len(s) : s[j] = "," /\ \A k \in 1..(j - 1) : s[k] # ","
         IN  <<SubSeq(s, 1, i - 1)>> \o SplitComma(SubSeq(s, i + 1, Len(s)))

\* ",".join(q): the items of q with a comma between them.
JoinComma(q) ==
    [i \in 1..(2 * Len(q) - 1) |-> IF i % 2 = 1 THEN q[(i + 1) \div 2] ELSE ","]

\* _parse_onkyo_payload(payload), lines 311-324, for the payload
\* (command, attrib) the handler passes: a tuple of two items is no bool and
\* no shorter than 2, so the answer is the second item, split at its commas
\* when it is a string (a name of the command table has no comma).
parse_onkyo_payload(attrib) ==
    CASE attrib.t = "chars" ->
           PyList([i \in 1..Len(SplitComma(attrib.v)) |-> PyChars(SplitComma(attrib.v)[i])])
      [] attrib.t = "str" -> PyList(<<attrib>>)
      [] OTHER -> attrib

\* _tuple_get(tup, index), lines 326-328: the item at index, counted from
\* 0, or None when the sequence is shorter.
tuple_get(values, index) ==
    IF index + 1 <= Len(values.v) THEN values.v[index + 1] ELSE PyNone

\* The keys of the audio and video information and the index each is read
\* from (lines 336-343 and 352-360).
AudioFields ==
    [f \in {"format", "input_frequency", "input_channels", "listening_mode",
            "output_channels", "output_frequency"} |->
        CASE f = "format" -> 1 [] f = "input_frequency" -> 2 [] f = "input_channels" -> 3
          [] f = "listening_mode" -> 4 [] f = "output_channels" -> 5
          [] f = "output_frequency" -> 6]
VideoFields ==
    [f \in {"input_resolution", "input_color_schema", "input_color_depth",
            "output_resolution", "output_color_schema", "output_color_depth",
            "picture_mode"} |->
        CASE f = "input_resolution" -> 1 [] f = "input_color_schema" -> 2
          [] f = "input_color_depth" -> 3 [] f = "output_resolution" -> 5
          [] f = "output_color_schema" -> 6 [] f = "output_color_depth" -> 7
          [] f = "picture_mode" -> 8]

\* _parse_audio_information and _parse_video_information, lines 330-361:
\* False or None of _parse_onkyo_payload clears the capability flag and
\* gives None; any other value is read item by item, which a number does
\* not allow.
parse_information(attrib, fields) ==
    LET values == parse_onkyo_payload(attrib)
    IN  IF values.t = "none" \/ (values.t = "bool" /\ values.v = FALSE)
        THEN [err |-> "", unsupported |-> TRUE, info |-> PyNone]
        ELSE IF values.t \notin {"list", "tuple"}
        THEN [err |-> "TypeError", unsupported |-> FALSE, info |-> PyNone]
        ELSE [err |-> "", unsupported |-> FALSE,
              info |-> PyDict([f \in DOMAIN fields |-> tuple_get(values, fields[f])])]

\* Variant: the source id taken only from a payload that the command table
\* names.
int16OfDecoded(s) ==
    IF IsHex(s) /\ s \in DOMAIN COMMANDS[<<"S", "L", "I">>].values
    THEN [err |-> "", value |-> HexValue(s)]
    ELSE [err |-> "ValueError", value |-> 0]

\* int(s, 16) of the last two characters of a message (line 259): hex
\* digits, with a sign allowed in front.
int16(s) ==
    IF IsHex(s) THEN [err |-> "", value |-> HexValue(s)]
    ELSE IF Len(s) = 2 /\ s[1] \in {"+", "-"} /\ IsHex(<<s[2]>>)
    THEN [err |-> "", value |-> IF s[1] = "-" THEN 0 - HexValue(<<s[2]>>) ELSE HexValue(<<s[2]>>)]
    ELSE [err |-> "ValueError", value |-> 0]

\* The try block of _on_message_async (lines 237-292) for one message: the
\* exception it ends with ("" for none), the updates collected, the
\* ReceiverInfo it stores (PyNone when it stores none) and the capability
\* flags it clears.  The listening-mode branch, which also writes
\* self._sound_modes, is ListeningMode below.  The values of the
\* hdmi-output-selector command are tuples of aliases or raw payloads in
\* this model, never a single name.
TryBlock(m, max_volume, receiver_max_volume) ==
    LET dec == iscp_to_command(m)
        zone == dec.zone
        command == dec.command
        attrib == dec.attrib
        none == [err |-> "", updates |-> NoUpdates, info |-> PyNone, unsupported |-> {}]
    IN  IF dec.err # "" THEN [none EXCEPT !.err = dec.err]
        ELSE IF \E i \in 1..Len(ZONE_NAMES) : ZONE_NAMES[i] = zone
        THEN CASE command \in {"system-power", "power"} ->
                    [none EXCEPT !.updates =
                        ZoneUpdate(zone, "power",
                                   IF attrib = PyStr("on") THEN PyStr("power_on")
                                   ELSE PyStr("power_off"))]
               [] command \in {"audio-muting", "muting"} ->
                    [none EXCEPT !.updates =
                        ZoneUpdate(zone, "mute", PyBool(attrib = PyStr("on")))]
               [] command \in {"master-volume", "volume"} ->
                    IF attrib = PyChars(<<"N", "/", "A">>)
                    THEN [none EXCEPT !.updates = ZoneUpdate(zone, "volume", PyFloat(0, 1))]
                    ELSE IF attrib.t # "int" THEN [none EXCEPT !.err = "TypeError"]
                    ELSE [none EXCEPT !.updates =
                            ZoneUpdate(zone, "volume",
                                       PyFloat(attrib.v * 100, receiver_max_volume * max_volume))]
               [] command = "audio-information" ->
                    LET p == parse_information(attrib, AudioFields)
                    IN  IF p.err # "" THEN [none EXCEPT !.err = p.err]
                        ELSE [none EXCEPT !.updates = ZoneUpdate(zone, "audio_info", p.info),
                                          !.unsupported = IF p.unsupported THEN {"audio_info"}
                                                          ELSE {}]
               [] command = "video-information" ->
                    LET p == parse_information(attrib, VideoFields)
                    IN  IF p.err # "" THEN [none EXCEPT !.err = p.err]
                        ELSE [none EXCEPT !.updates = ZoneUpdate(zone, "video_info", p.info),
                                          !.unsupported = IF p.unsupported THEN {"video_info"}
                                                          ELSE {}]
               [] command \in {"input-selector", "selector"} ->
                    LET n == int16(LastTwo(m))
                    IN  IF n.err # "" THEN [none EXCEPT !.err = n.err]
                        ELSE [none EXCEPT !.updates = ZoneUpdate(zone, "source", PyInt(n.value))]
               [] command = "preset" ->
                    [none EXCEPT !.updates = ZoneUpdate(zone, "preset", attrib)]
               [] command = "hdmi-output-selector" ->
                    (CASE attrib.t \in {"chars", "tuple"} ->
                            [none EXCEPT
                               !.updates = ZoneUpdate(zone, "hdmi_out",
                                                      PyChars(JoinComma(attrib.v))),
                               !.unsupported = IF attrib = PyChars(<<"N", "/", "A">>)
                                               THEN {"hdmi_out"} ELSE {}]
                       [] attrib.t = "int" -> [none EXCEPT !.err = "TypeError"])
               [] command = "fl-display-information" ->
                    LET d == DisplayText(m)
                    IN  IF d.err # "" THEN [none EXCEPT !.err = d.err]
                        ELSE [none EXCEPT !.updates = ZoneUpdate(zone, "display", d.text)]
               [] OTHER -> none
        ELSE IF zone = "dock"
        THEN IF command = "receiver-information"
             THEN LET x == from_xml(XmlOf(attrib.v))
                  IN  IF x.err # "" THEN [none EXCEPT !.err = x.err]
                      ELSE [err |-> "",
                            updates |-> [k \in {"receiver_information", "name", "identifier"} |->
                                           CASE k = "receiver_information" -> PyInfo(x.info)
                                             [] k = "name" -> PyStr(x.info.model)
                                             [] k = "identifier" -> PyStr(x.info.serial)],
                            info |-> PyInfo(x.info), unsupported |-> {}]
             ELSE none
        ELSE none

\* Variant: an except clause that catches nothing.
CaughtNothing(err) == FALSE

\* except ValueError (line 293): the exceptions the handler swallows.
Caught(err) == err = "ValueError"

\* dict_merge(dct, merge_dct) of util.py: a key whose old and new values are
\* both dicts is merged recursively, any other key of merge_dct is set.
RECURSIVE DictMergeFn(_, _)
DictMergeFn(d, u) ==
    [k \in DOMAIN d \cup DOMAIN u |->
        IF k \notin DOMAIN u THEN d[k]
        ELSE IF k \in DOMAIN d /\ d[k].t = "dict" /\ u[k].t = "dict"
        THEN PyDict(DictMergeFn(d[k].v, u[k].v))
        ELSE u[k]]
dict_merge(data0, updates0) == PyDict(DictMergeFn(data0.v, updates0))

\* Variant: dict.update, which replaces the dict of a zone as a whole.
ShallowUpdate(data0, updates0) ==
    PyDict([k \in DOMAIN data0.v \cup DOMAIN updates0 |->
               IF k \in DOMAIN updates0 THEN updates0[k] ELSE data0.v[k]])

\* Line 297: how the handler applies the updates to self.data.
MergeUpdates(data0, updates0) == dict_merge(data0, updates0)

\* ---------------------------------------------------------------- state
VARIABLES
    hass,           \* whether the instance was constructed with hass (an event loop)
    data,           \* OnkyoReceiver.data
    receiver_info,  \* OnkyoReceiver._receiver_info
    listeners,      \* OnkyoReceiver.listeners, in registration order
    syncCommands,   \* OnkyoReceiver._sync_commands: prefix -> SyncCommand object
    heap,           \* the SyncCommand objects created so far: [events, result]
    waiters,        \* the raw_async / command_async calls (tasks of the event loop)
    running,        \* the task the event loop thread is running now, 0 for none
    loopQueue,      \* callbacks handed to the event loop, first in first run
    outbox,         \* commands handed to the transport (Receiver.send)
    readerPc,       \* where the reader thread is in _on_message_async
    cur,            \* the message the reader thread is handling
    updates,        \* the handler's local updates for cur
    curSc,          \* the SyncCommand the handler popped for cur
    idx,            \* position of _set_result's loop in the event list
    handled,        \* number of messages handed to the handler so far
    raised,         \* the exception that left the handler ("" for none)
    notified,       \* per listener: how often it was invoked with the state
    merges,         \* history: number of non-empty merges into data
    regAt,          \* history: per listener, merges when it was registered
    carried,        \* history: per zone attribute, the value of the last message carrying it
    xmlDoc,         \* the document handed to ReceiverInfo.from_xml on its own
    xmlResult,      \* what from_xml gave for xmlDoc
    sound_modes,    \* OnkyoReceiver._sound_modes: zone key -> list of mode names
    aliased,        \* the holders (zone keys of data, the handler's updates) whose
                    \* list of modes is the very list object of _sound_modes
    receiver_udp_info, \* OnkyoReceiver._receiver_udp_info
    seen,           \* what the last read of data on the event loop returned
    began,          \* history: data when the handler took up the listening-mode
                    \* message it is handling
    conn,           \* the transport's socket: "up", "down" (torn down by an
                    \* I/O error) or "closed" (by disconnect)
    retrieved_receiver_info, \* OnkyoReceiver._retrieved_receiver_info
    infoPc,         \* where get_all_receiver_info is
    retries,        \* its local retries
    tasks,          \* the command_async tasks it created, one per attempt:
                    \* "pending", "done" or "cancelled"
    hdmi_out_supported,   \* OnkyoReceiver._hdmi_out_supported
    audio_info_supported, \* OnkyoReceiver._audio_info_supported
    video_info_supported, \* OnkyoReceiver._video_info_supported
    setup,          \* the call of async_setup_entry (__init__.py): where it is, the
                    \* receiver information it got and how it ended
    second,         \* a call of get_receiver_info beside the one that resolves
                    \* the inventory: where it is, what it returned and where the
                    \* resolution was at that moment
    userFlow,       \* a config flow of hass_onkyo_ng started by the user: where
                    \* its user step is, what was submitted and how the step ended
    zcFlow,         \* a config flow of hass_onkyo_ng started by zeroconf
    ngFlow          \* a config flow of onkyo_ng in its configure_receiver step

xmlVars == <<xmlDoc, xmlResult>>
opVars == <<sound_modes, aliased, receiver_udp_info, seen, began, conn>>
infoVars == <<retrieved_receiver_info, infoPc, retries, tasks>>
capVars == <<hdmi_out_supported, audio_info_supported, video_info_supported>>
flowVars == <<userFlow, zcFlow, ngFlow>>
callVars == <<setup, second, flowVars>>
\* The variables of the operations the handler and the awaited commands do
\* not touch.
extVars == <<xmlVars, opVars, infoVars>>

vars == <<hass, data, receiver_info, listeners, syncCommands, heap, waiters, running,
          loopQueue, outbox, readerPc, cur, updates, curSc, idx, handled, raised,
          notified, merges, regAt, carried, extVars, capVars, callVars>>

Waiters == 1..MaxWaiters
Listeners == 1..MaxListeners
NoMsg == <<>>

\* Commands the model's callers await.
AwaitedCommands == {PWRQSTN, MVLQSTN}
\* Messages the device sends while commands are awaited.
ReplyMessages == {PWR01, PWR00, MVL28}
\* Messages for the handler on its own.
AllMessages ==
    {PWR01, PWR00, ZPW01, MVL28, XYZ01, FLD4142, FLD4G, FLD80,
     NRI_OK, NRI_MALFORMED, NRI_NOMODEL}

IdleWaiter ==
    [pc |-> "idle", cmd |-> NoMsg, sc |-> 0, result |-> NoMsg,
     \* history: the message (and its number) whose handling signalled the
     \* waiter's event, how often its table entry was removed, how many
     \* messages had reached the handler when the event was appended, and
     \* whether a matching message that came later was checked against the
     \* table without reaching the waiter
     sigSeq |-> 0, sig |-> NoMsg, removals |-> 0, regSeq |-> 0, missed |-> FALSE,
     \* whether the call runs under a timeout
     timed |-> TRUE]

\* The zone attributes of a state or of an update, as (zone key, attribute)
\* -> value.
ZoneAttrs(d) ==
    LET zk == {k \in DOMAIN d : k \in ZoneKeys /\ d[k].t = "dict"}
        paths == UNION {{<<k, a>> : a \in DOMAIN d[k].v} : k \in zk}
    IN  [p \in paths |-> d[p[1]].v[p[2]]]

\* Python's "x in q" for a list.
InSeq(x, q) == \E n \in 1..Len(q) : q[n] = x

Override(f, g) == [x \in DOMAIN f \cup DOMAIN g |-> IF x \in DOMAIN g THEN g[x] ELSE f[x]]

\* No document, and no result yet.
NoDoc == <<>>

\* The instance after __init__ (lines 122-166).
InitCore ==
    /\ hass \in BOOLEAN
    /\ data = InitData
    /\ receiver_info = PyNone
    /\ listeners = <<>>
    /\ syncCommands = [p \in {} |-> 0]
    /\ heap = <<>>
    /\ waiters = [w \in Waiters |-> IdleWaiter]
    /\ running = 0
    /\ loopQueue = <<>>
    /\ outbox = <<>>
    /\ readerPc = "idle"
    /\ cur = NoMsg
    /\ updates = NoUpdates
    /\ curSc = 0
    /\ idx = 0
    /\ handled = 0
    /\ raised = ""
    /\ notified = [l \in Listeners |-> 0]
    /\ merges = 0
    /\ regAt = [l \in Listeners |-> 0]
    /\ carried = ZoneAttrs(InitData.v)

\* async_setup_entry not called yet, and no second caller of
\* get_receiver_info yet.
NotSetUp == [pc |-> "idle", info |-> PyNone, result |-> "", coordinator |-> FALSE]
NotCalled == [pc |-> "idle", result |-> PyNone, at |-> ""]

\* No snapshot read yet.
NoSnapshot == <<>>

\* What a step of a config flow gives back: the FlowResult of
\* async_show_form, async_create_entry or async_abort, or the exception the
\* step ended with.
NoResult ==
    [type |-> "none", step_id |-> "", errors |-> <<>>, title |-> "", data |-> PyNone,
     options |-> PyNone, reason |-> "", exc |-> ""]

\* The config flows before their first step.
NoUserFlow == [pc |-> "idle", input |-> PyNone, result |-> NoResult, created |-> 0,
               disconnected |-> 0]
NoZcFlow ==
    [pc |-> "idle", host |-> PyNone, found |-> FALSE, configured |-> FALSE,
     context |-> PyNone, result |-> NoResult]
NoNgFlow ==
    [pc |-> "idle", source |-> "", receiver_info |-> PyNone, entry |-> PyNone,
     before |-> PyNone, input |-> PyNone, result |-> NoResult]

\* __init__, lines 133-141, a transport whose socket is connected, and
\* get_all_receiver_info not called yet.
InitOps ==
    /\ setup = NotSetUp
    /\ second = NotCalled
    /\ userFlow = NoUserFlow
    /\ zcFlow = NoZcFlow
    /\ ngFlow = NoNgFlow
    /\ hdmi_out_supported = TRUE
    /\ audio_info_supported = TRUE
    /\ video_info_supported = TRUE
    /\ sound_modes = [k \in {} |-> <<>>]
    /\ aliased = {}
    /\ receiver_udp_info = PyNone
    /\ seen = NoSnapshot
    /\ began = InitData
    /\ conn = "up"
    /\ retrieved_receiver_info = FALSE
    /\ infoPc = "idle"
    /\ retries = 0
    /\ tasks = <<>>

Init ==
    /\ InitCore
    /\ InitOps
    /\ xmlDoc = NoDoc
    /\ xmlResult = NoDoc

readerVars == <<readerPc, cur, updates, curSc, idx, handled, raised>>
storeVars == <<data, receiver_info, merges, carried>>

\* ------------------------------------------------- event loop: callers
\* register_listener (lines 231-232).
RegisterListener ==
    /\ running = 0
    /\ Len(listeners) < MaxListeners
    /\ listeners' = Append(listeners, Len(listeners) + 1)
    /\ regAt' = [regAt EXCEPT ![Len(listeners) + 1] = merges]
    /\ UNCHANGED <<callVars, capVars, extVars, hass, data, receiver_info, syncCommands, heap, waiters, running,
                   loopQueue, outbox, readerVars, notified, merges, carried>>

\* raw_async, lines 378-379: self._sync_commands[prefix] on the defaultdict
\* returns the entry of the prefix, creating an empty SyncCommand when the
\* table has none.
StartCall(w, cmd, timed) ==
    /\ running = 0
    /\ waiters[w].pc = "idle"
    /\ \A v \in Waiters : v < w => waiters[v].pc # "idle"
    /\ LET p == Prefix(cmd)
           fresh == p \notin DOMAIN syncCommands
           sc == IF fresh THEN Len(heap) + 1 ELSE syncCommands[p]
       IN  /\ heap' = IF fresh THEN Append(heap, [events |-> <<>>, result |-> NoMsg]) ELSE heap
           /\ syncCommands' = IF fresh THEN Override(syncCommands, [q \in {p} |-> sc])
                              ELSE syncCommands
           /\ waiters' = [waiters EXCEPT ![w] = [@ EXCEPT !.pc = "lookedup", !.cmd = cmd,
                                                          !.sc = sc, !.timed = timed]]
    /\ running' = w
    /\ UNCHANGED <<callVars, capVars, extVars, hass, storeVars, listeners, loopQueue, outbox, readerVars, notified, regAt>>

\* A call under a timeout: command_async(command, timeout) of line 388, or
\* asyncio.wait_for around the call (media_player.py, lines 266 and 272).
Start(w, cmd) == StartCall(w, cmd, TRUE)

\* A call under no timeout: raw_async (lines 375-386), which takes none, or
\* command_async with its default timeout=None (line 388).
StartUntimed(w, cmd) == StartCall(w, cmd, FALSE)

\* raw_async, lines 380-381: a new event is appended to the entry's list.
AddEvent(w) ==
    /\ running = w
    /\ waiters[w].pc = "lookedup"
    /\ heap' = [heap EXCEPT ![waiters[w].sc].events = Append(@, w)]
    /\ waiters' = [waiters EXCEPT ![w] = [@ EXCEPT !.pc = "registered", !.regSeq = handled]]
    /\ UNCHANGED <<callVars, capVars, extVars, hass, storeVars, listeners, syncCommands, running, loopQueue, outbox,
                   readerVars, notified, regAt>>

\* Variant of raw_async with lines 381 and 382 exchanged: the command is
\* handed to the transport before the event is appended, and the event never
\* is.
SendBeforeAddEvent(w) ==
    /\ running = w
    /\ waiters[w].pc = "lookedup"
    /\ outbox' = Append(outbox, waiters[w].cmd)
    /\ waiters' = [waiters EXCEPT ![w].pc = "waiting"]
    /\ running' = 0
    /\ UNCHANGED <<callVars, capVars, extVars, hass, storeVars, listeners, syncCommands, heap, loopQueue,
                   readerVars, notified, regAt>>

\* raw_async, lines 382-383: the command is handed to the transport and
\* await event.wait() suspends the task (one step: the reader thread reads
\* nothing either line writes).
SendWait(w) ==
    /\ running = w
    /\ waiters[w].pc = "registered"
    /\ outbox' = Append(outbox, waiters[w].cmd)
    /\ waiters' = [waiters EXCEPT ![w].pc = "waiting"]
    /\ running' = 0
    /\ UNCHANGED <<callVars, capVars, extVars, hass, storeVars, listeners, syncCommands, heap, loopQueue,
                   readerVars, notified, regAt>>

\* command_async, line 392: asyncio.wait_for gives up at the timeout and
\* cancels raw_async, which has no handler for it: the call fails with
\* Timeout and nothing else happens.
Timeout(w) ==
    /\ running = 0
    /\ waiters[w].timed
    /\ waiters[w].pc \in {"waiting", "woken"}
    /\ waiters' = [waiters EXCEPT ![w].pc = "timeout"]
    /\ UNCHANGED <<callVars, capVars, extVars, hass, storeVars, listeners, syncCommands, heap, running, loopQueue, outbox,
                   readerVars, notified, regAt>>

\* get_all_receiver_info, lines 178-180: the task of a command_async call
\* is cancelled while it waits.
Cancel(w) ==
    /\ running = 0
    /\ waiters[w].pc \in {"waiting", "woken"}
    /\ waiters' = [waiters EXCEPT ![w].pc = "cancelled"]
    /\ UNCHANGED <<callVars, capVars, extVars, hass, storeVars, listeners, syncCommands, heap, running, loopQueue, outbox,
                   readerVars, notified, regAt>>

\* ----------------------------------------------- event loop: callbacks
\* The coroutine listener(self.data) handed over at line 301 runs: the
\* listener is invoked with the state.
LoopDispatch ==
    /\ running = 0
    /\ loopQueue # <<>>
    /\ Head(loopQueue).kind = "dispatch"
    /\ notified' = [notified EXCEPT ![Head(loopQueue).id] = @ + 1]
    /\ loopQueue' = Tail(loopQueue)
    /\ UNCHANGED <<callVars, capVars, extVars, hass, storeVars, listeners, syncCommands, heap, waiters, running, outbox,
                   readerVars, regAt>>

\* asyncio.Event.set, scheduled by Event_ts.set (line 472): a task waiting
\* on the event is scheduled to resume.
LoopSet ==
    /\ running = 0
    /\ loopQueue # <<>>
    /\ Head(loopQueue).kind = "set"
    /\ LET w == Head(loopQueue).id
       IN  IF waiters[w].pc = "waiting"
           THEN /\ waiters' = [waiters EXCEPT ![w].pc = "woken"]
                /\ loopQueue' = Append(Tail(loopQueue), [kind |-> "wake", id |-> w, seq |-> 0])
           ELSE /\ waiters' = waiters
                /\ loopQueue' = Tail(loopQueue)
    /\ UNCHANGED <<callVars, capVars, extVars, hass, storeVars, listeners, syncCommands, heap, running, outbox,
                   readerVars, notified, regAt>>

\* Variant: the call returns the message the handler saw last.
SyncResultLatest(w) == cur

\* raw_async, line 384, and SyncCommand.result, lines 466-468: the result of
\* the SyncCommand the call registered with.
SyncResult(w) == heap[waiters[w].sc].result

\* raw_async, lines 384-386: the resumed task reads the result of the
\* SyncCommand it registered with and returns it.
LoopWake ==
    /\ running = 0
    /\ loopQueue # <<>>
    /\ Head(loopQueue).kind = "wake"
    /\ LET w == Head(loopQueue).id
       IN  waiters' = IF waiters[w].pc = "woken"
                      THEN [waiters EXCEPT ![w] = [@ EXCEPT !.pc = "returned",
                                                            !.result = SyncResult(w)]]
                      ELSE waiters
    /\ loopQueue' = Tail(loopQueue)
    /\ UNCHANGED <<callVars, capVars, extVars, hass, storeVars, listeners, syncCommands, heap, running, outbox,
                   readerVars, notified, regAt>>

\* Variant: only the first listener of the list is handed over.
FirstListenerOnly(hass0, ls, seq) ==
    IF hass0 /\ ls # <<>> THEN <<[kind |-> "dispatch", id |-> ls[1], seq |-> seq]>>
    ELSE <<>>

\* ---------------------------------------------------------- reader thread
\* Lines 298-303: with an event loop every registered listener is handed
\* to it, in registration order; without one the update is only logged.
ListenerDispatches(hass0, ls, seq) ==
    IF hass0 THEN [i \in 1..Len(ls) |-> [kind |-> "dispatch", id |-> ls[i], seq |-> seq]]
    ELSE <<>>

\* Lines 305-306: the table key the handler looks up for a message.
CorrelationKey(m) == Prefix(m)

\* Variant: a handler that pops and signals the waiters of the message
\* before it merges the update and hands the listeners over.
ReceiveCheckFirst(m) ==
    /\ readerPc = "idle"
    /\ cur' = m
    /\ handled' = handled + 1
    /\ LET r == TryBlock(m, ONKYO_SUPPORTED_MAX_VOLUME, ONKYO_DEFAULT_RECEIVER_MAX_VOLUME)
           p == CorrelationKey(m)
           found == p \in DOMAIN syncCommands
           evs == IF found THEN heap[syncCommands[p]].events ELSE <<>>
           hit(w) == \E i \in 1..Len(evs) : evs[i] = w
           sets == [i \in 1..Len(evs) |-> [kind |-> "set", id |-> evs[i], seq |-> handled + 1]]
       IN  /\ syncCommands' = [q \in DOMAIN syncCommands \ {p} |-> syncCommands[q]]
           /\ heap' = IF found THEN [heap EXCEPT ![syncCommands[p]].result = m] ELSE heap
           /\ waiters' = [w \in Waiters |->
                 IF hit(w)
                 THEN [waiters[w] EXCEPT !.sigSeq = handled + 1, !.sig = m, !.removals = @ + 1]
                 ELSE waiters[w]]
           /\ updates' = r.updates
           /\ receiver_info' = IF r.info # PyNone THEN r.info ELSE receiver_info
           /\ hdmi_out_supported' = (hdmi_out_supported /\ "hdmi_out" \notin r.unsupported)
           /\ audio_info_supported' = (audio_info_supported /\ "audio_info" \notin r.unsupported)
           /\ video_info_supported' = (video_info_supported /\ "video_info" \notin r.unsupported)
           /\ IF r.updates # NoUpdates
              THEN /\ data' = MergeUpdates(data, r.updates)
                   /\ merges' = merges + 1
                   /\ carried' = Override(carried, ZoneAttrs(r.updates))
                   /\ loopQueue' = (loopQueue \o sets)
                                       \o ListenerDispatches(hass, listeners, handled + 1)
              ELSE /\ loopQueue' = loopQueue \o sets
                   /\ UNCHANGED <<data, merges, carried>>
    /\ UNCHANGED <<callVars, extVars, hass, listeners, running, outbox, readerPc, curSc, idx, raised,
                   notified, regAt>>

\* _on_message_async, lines 236-303, for message m: the try block, the
\* merge and the hand-over to the listeners.  An exception the handler does
\* not catch leaves it at once, into the read loop.
ReaderReceive(m) ==
    /\ readerPc = "idle"
    /\ cur' = m
    /\ handled' = handled + 1
    /\ LET r == TryBlock(m, ONKYO_SUPPORTED_MAX_VOLUME, ONKYO_DEFAULT_RECEIVER_MAX_VOLUME)
       IN  IF r.err # "" /\ ~Caught(r.err)
           THEN /\ raised' = r.err
                /\ readerPc' = "dead"
                /\ UNCHANGED <<storeVars, loopQueue, updates, capVars>>
           ELSE /\ raised' = raised
                /\ readerPc' = "check"
                /\ updates' = r.updates
                /\ receiver_info' = IF r.info # PyNone THEN r.info ELSE receiver_info
                /\ hdmi_out_supported' = (hdmi_out_supported /\ "hdmi_out" \notin r.unsupported)
                /\ audio_info_supported' =
                       (audio_info_supported /\ "audio_info" \notin r.unsupported)
                /\ video_info_supported' =
                       (video_info_supported /\ "video_info" \notin r.unsupported)
                /\ IF r.updates # NoUpdates
                   THEN /\ data' = MergeUpdates(data, r.updates)
                        /\ merges' = merges + 1
                        /\ carried' = Override(carried, ZoneAttrs(r.updates))
                        /\ loopQueue' = loopQueue \o ListenerDispatches(hass, listeners, handled + 1)
                   ELSE UNCHANGED <<data, merges, carried, loopQueue>>
    /\ UNCHANGED <<callVars, extVars, hass, listeners, syncCommands, heap, waiters, running, outbox, curSc, idx,
                   notified, regAt>>

\* Whether waiter w has appended its event and is still waiting for a first
\* matching message.
Pending(w) == waiters[w].pc \in {"registered", "waiting"} /\ waiters[w].sigSeq = 0

InEvents(w, sc) == \E i \in 1..Len(heap[sc].events) : heap[sc].events[i] = w

\* Variant: a handler that waits for the listeners it scheduled (the result
\* of run_coroutine_threadsafe) before it goes on to the correlation check.
ReaderPopAfterListeners ==
    /\ \A i \in 1..Len(loopQueue) :
           ~(loopQueue[i].kind = "dispatch" /\ loopQueue[i].seq = handled)
    /\ readerPc = "check"
    /\ LET p == CorrelationKey(cur)
           found == p \in DOMAIN syncCommands
           sc == IF found THEN syncCommands[p] ELSE 0
       IN  /\ syncCommands' = [q \in DOMAIN syncCommands \ {p} |-> syncCommands[q]]
           /\ curSc' = sc
           /\ heap' = IF found THEN [heap EXCEPT ![sc].result = cur] ELSE heap
           /\ idx' = IF found THEN 1 ELSE idx
           /\ readerPc' = IF found THEN "signal" ELSE "idle"
           /\ waiters' = [w \in Waiters |->
                 [waiters[w] EXCEPT
                    !.removals = IF found /\ InEvents(w, sc) THEN @ + 1 ELSE @]]
    /\ UNCHANGED <<callVars, capVars, extVars, hass, storeVars, listeners, running, loopQueue, outbox, cur, updates,
                   handled, raised, notified, regAt>>

\* Variant: a handler whose correlation check is part of the try block, so
\* that a message that ends the block with an exception is not checked
\* against the table.
ReaderPopDecodedOnly ==
    /\ readerPc = "check"
    /\ LET p == CorrelationKey(cur)
           decoded == TryBlock(cur, ONKYO_SUPPORTED_MAX_VOLUME,
                               ONKYO_DEFAULT_RECEIVER_MAX_VOLUME).err = ""
           found == decoded /\ p \in DOMAIN syncCommands
           sc == IF found THEN syncCommands[p] ELSE 0
       IN  /\ syncCommands' = IF decoded
                              THEN [q \in DOMAIN syncCommands \ {p} |-> syncCommands[q]]
                              ELSE syncCommands
           /\ curSc' = sc
           /\ heap' = IF found THEN [heap EXCEPT ![sc].result = cur] ELSE heap
           /\ idx' = IF found THEN 1 ELSE idx
           /\ readerPc' = IF found THEN "signal" ELSE "idle"
           /\ waiters' = [w \in Waiters |->
                 [waiters[w] EXCEPT
                    !.removals = IF found /\ InEvents(w, sc) THEN @ + 1 ELSE @]]
    /\ UNCHANGED <<callVars, capVars, extVars, hass, storeVars, listeners, running, loopQueue,
                   outbox, cur, updates, handled, raised, notified, regAt>>

\* _on_message_async, lines 305-309, and SyncCommand._set_result, line 462:
\* when the prefix of the message is a key of the table, its entry is popped
\* and the message becomes the entry's result.
ReaderPop ==
    /\ readerPc = "check"
    /\ LET p == CorrelationKey(cur)
           found == p \in DOMAIN syncCommands
           sc == IF found THEN syncCommands[p] ELSE 0
       IN  /\ syncCommands' = [q \in DOMAIN syncCommands \ {p} |-> syncCommands[q]]
           /\ curSc' = sc
           /\ heap' = IF found THEN [heap EXCEPT ![sc].result = cur] ELSE heap
           /\ idx' = IF found THEN 1 ELSE idx
           /\ readerPc' = IF found THEN "signal" ELSE "idle"
           /\ waiters' = [w \in Waiters |->
                 [waiters[w] EXCEPT
                    !.removals = IF found /\ InEvents(w, sc) THEN @ + 1 ELSE @,
                    !.missed = @ \/ (/\ Pending(w)
                                     /\ handled > waiters[w].regSeq
                                     /\ Prefix(waiters[w].cmd) = Prefix(cur)
                                     /\ ~(found /\ waiters[w].sc = sc))]]
    /\ UNCHANGED <<callVars, capVars, extVars, hass, storeVars, listeners, running, loopQueue, outbox, cur, updates,
                   handled, raised, notified, regAt>>

\* Variant: only the first event of the list is set.
FirstEventOnly(i, n) == i = 1 /\ i <= n

\* SyncCommand._set_result, lines 463-464: whether the loop over the event
\* list, at position i of n, has another event to set.
HasNextEvent(i, n) == i <= n

\* SyncCommand._set_result, lines 463-464, one iteration: Event_ts.set (line
\* 472) hands asyncio.Event.set to the event loop.  The loop reads the list
\* as it is now, so it also reaches an event appended while it runs.
ReaderSignal ==
    /\ readerPc = "signal"
    /\ IF HasNextEvent(idx, Len(heap[curSc].events))
       THEN LET w == heap[curSc].events[idx]
            IN  /\ loopQueue' = Append(loopQueue, [kind |-> "set", id |-> w, seq |-> handled])
                /\ waiters' = [waiters EXCEPT ![w] = [@ EXCEPT !.sigSeq = handled, !.sig = cur]]
                /\ idx' = idx + 1
                /\ readerPc' = readerPc
       ELSE /\ readerPc' = "idle"
            /\ UNCHANGED <<loopQueue, waiters, idx>>
    /\ UNCHANGED <<callVars, capVars, extVars, hass, storeVars, listeners, syncCommands, heap, running, outbox, cur, updates,
                   curSc, handled, raised, notified, regAt>>

\* ------------------------------------------------------- specifications
\* Awaited commands and their replies, with the two threads interleaved.
Next ==
    \/ \E w \in Waiters, cmd \in AwaitedCommands : Start(w, cmd)
    \/ \E w \in Waiters : AddEvent(w)
    \/ \E w \in Waiters : SendWait(w)
    \/ \E w \in Waiters : Timeout(w)
    \/ \E w \in Waiters : Cancel(w)
    \/ LoopSet
    \/ LoopWake
    \/ \E m \in ReplyMessages : handled < MaxReplies /\ ReaderReceive(m)
    \/ ReaderPop
    \/ ReaderSignal

\* The correlation path reads nothing of hass: the instance has an event loop.
InitLoop == Init /\ hass = TRUE
Spec == InitLoop /\ [][Next]_vars

\* The message handler on every kind of message, with the listeners.
NextHandler ==
    \/ RegisterListener
    \/ LoopDispatch
    \/ \E m \in AllMessages : handled < MaxMsgs /\ ReaderReceive(m)
    \/ ReaderPop

SpecHandler == Init /\ [][NextHandler]_vars

\* Awaited commands and listeners together: what one message hands to the
\* event loop, and in which order.
NextOrder ==
    \/ RegisterListener
    \/ \E w \in Waiters, cmd \in AwaitedCommands : Start(w, cmd)
    \/ \E w \in Waiters : AddEvent(w)
    \/ \E w \in Waiters : SendWait(w)
    \/ LoopDispatch
    \/ LoopSet
    \/ LoopWake
    \/ \E m \in ReplyMessages : handled < MaxReplies /\ ReaderReceive(m)
    \/ ReaderPop
    \/ ReaderSignal

SpecOrder == InitLoop /\ [][NextOrder]_vars

\* ------------------------------------------------ from_xml on its own
\* The elements of the generated self-descriptions: zone element k has id
\* k, and the selectors name their zones with these bitmasks.
ZoneElemIds == <<"1", "2", "3", "4">>
ZoneElemNames == <<"Main", "Zone2", "Zone3", "Zone4">>
SelectorElemIds == <<<<"2", "3">>, <<"2", "4">>, <<"2", "5">>>>
SelectorElemNames == <<"CD", "TUNER", "PHONO">>
ZoneMasks == {<<"0", "0">>, <<"0", "1">>, <<"0", "2">>, <<"0", "3">>, <<"0", "6">>, <<"0", "F">>}
ElemValues == {<<"0">>, <<"1">>}

\* Well-formed self-descriptions with every combination of installed and
\* absent zones and selectors and of zone bitmasks.
GeneratedDocs ==
    {[DocOk EXCEPT
        !.zones = [k \in 1..MaxZoneElems |->
                     [value |-> zv[k], id |-> <<ZoneElemIds[k]>>, name |-> ZoneElemNames[k],
                      volmax |-> <<"8", "0">>]],
        !.selectors = [j \in 1..MaxSelectorElems |->
                         [value |-> sv[j], id |-> SelectorElemIds[j],
                          name |-> SelectorElemNames[j], zone |-> sm[j]]]] :
        zv \in [1..MaxZoneElems -> ElemValues],
        sv \in [1..MaxSelectorElems -> ElemValues],
        sm \in [1..MaxSelectorElems -> ZoneMasks]}

\* ReceiverInfo.from_xml (lines 54-89) applied to the document.
ParseXml ==
    /\ xmlDoc # NoDoc
    /\ xmlResult = NoDoc
    /\ xmlResult' = from_xml(xmlDoc)
    /\ UNCHANGED <<callVars, capVars, hass, storeVars, listeners, syncCommands, heap, waiters, running,
                   loopQueue, outbox, readerVars, notified, regAt, xmlDoc, opVars, infoVars>>

NextXml == ParseXml

InitXml ==
    /\ InitCore
    /\ InitOps
    /\ hass = TRUE
    /\ xmlDoc \in GeneratedDocs
    /\ xmlResult = NoDoc

SpecXml == InitXml /\ [][NextXml]_vars

\* ------------------------------------------ the other operations on data
MaxOutbox == 1
MaxStoreMsgs == 2

\* What storage.async_load gives load_data: None when nothing was stored,
\* else the saved dict of _data_to_save (lines 221-225).
StoredData ==
    {PyNone,
     PyDict([k \in {"sound_modes"} |-> [z \in {} |-> <<>>]]),
     PyDict([k \in {"sound_modes"} |-> [z \in {"zone_main"} |-> <<"stereo">>]]),
     PyDict([k \in {"sound_modes"} |-> [z \in {"zone_main", "zone_zone2"} |->
                                          IF z = "zone_main" THEN <<"direct">> ELSE <<"stereo">>]])}

\* What self._receiver.info gives command_udp_info: None when the discovery
\* answer was missed, else the answer's fields.
UdpReplies ==
    {PyNone,
     PyDict([k \in {"model_name", "identifier"} |->
               IF k = "model_name" THEN PyStr("TX-NR609") ELSE PyStr("0009B0123456")])}

\* Python truth of a value: None and the empty dict are false.
Truthy(x) == x # PyNone /\ x # EmptyDict

\* data with the list data[zone_key]['sound_mode_list'] holding q.
WithModeList(d, zone_key, q) ==
    PyDict([d.v EXCEPT ![zone_key] =
                PyDict([d.v[zone_key].v EXCEPT !["sound_mode_list"] = PyList(q)])])

\* What load_data (lines 204-215) leaves in data, _sound_modes and the
\* sharing of their lists, for what the storage holds: nothing changes when
\* it holds nothing.
Loaded(stored) ==
    IF stored = PyNone
    THEN [data |-> data, sound_modes |-> sound_modes, aliased |-> aliased]
    ELSE LET sm == stored.v["sound_modes"]
             get(zk) == IF zk \in DOMAIN sm THEN sm[zk] ELSE <<>>
         IN  [sound_modes |-> sm,
              aliased |-> DOMAIN sm \cap ZoneKeys,
              data |-> PyDict([k \in DOMAIN data.v |->
                          IF k \in ZoneKeys
                          THEN PyDict([data.v[k].v EXCEPT
                                         !["sound_mode_list"] = PyList(get(k))])
                          ELSE data.v[k]])]

\* load_data, lines 204-215.  Line 209 replaces _sound_modes by the stored
\* dict; line 212 stores, per zone, the stored list itself (from then on
\* one object with _sound_modes[zone_key]) or a new empty list.  The
\* listeners of lines 214-215 are coroutine functions called without being
\* awaited or scheduled: their bodies do not run.
LoadData(stored) ==
    /\ running = 0
    /\ hass
    /\ data' = Loaded(stored).data
    /\ sound_modes' = Loaded(stored).sound_modes
    /\ aliased' = Loaded(stored).aliased
    /\ UNCHANGED <<callVars, capVars, xmlVars, infoVars, began, hass, receiver_info, merges, carried, listeners, syncCommands,
                   heap, waiters, running, loopQueue, outbox, readerVars, notified, regAt,
                   receiver_udp_info, seen, conn>>

\* command_udp_info, lines 397-405, with what the reads of
\* self._receiver.info give: the loop stops at the first answer, which is
\* kept, and writes its model name into data.
CommandUdpInfo(reply) ==
    /\ running = 0
    /\ ~Truthy(receiver_udp_info)
    /\ receiver_udp_info' = reply
    /\ data' = IF Truthy(reply)
               THEN PyDict(Override(data.v, [k \in {"name"} |-> reply.v["model_name"]]))
               ELSE data
    /\ UNCHANGED <<callVars, capVars, xmlVars, infoVars, began, hass, receiver_info, merges, carried, listeners, syncCommands,
                   heap, waiters, running, loopQueue, outbox, readerVars, notified, regAt,
                   sound_modes, aliased, seen, conn>>

\* "<prefix>QSTN".
Query(p) == p \o <<"Q", "S", "T", "N">>

\* Variant: the queries of a zone with no regard to the capability flag.
ZoneQueriesAll(zone, hdmi_out) ==
    CASE zone = "main" ->
           <<Query(<<"P", "W", "R">>), Query(<<"M", "V", "L">>), Query(<<"I", "F", "A">>),
             Query(<<"I", "F", "V">>), Query(<<"L", "M", "D">>), Query(<<"P", "R", "S">>),
             Query(<<"H", "D", "O">>), Query(<<"A", "M", "T">>), Query(<<"S", "L", "I">>)>>
      [] zone = "zone2" ->
           <<Query(<<"Z", "P", "W">>), Query(<<"Z", "V", "L">>), Query(<<"Z", "M", "T">>),
             Query(<<"S", "L", "Z">>)>>
      [] zone = "zone3" ->
           <<Query(<<"P", "W", "3">>), Query(<<"V", "L", "3">>), Query(<<"M", "T", "3">>),
             Query(<<"S", "L", "3">>)>>
      [] OTHER ->
           <<Query(<<"P", "W", "4">>), Query(<<"V", "L", "4">>), Query(<<"M", "T", "4">>),
             Query(<<"S", "L", "4">>)>>

\* command_to_iscp of the eiscp library for the commands update() sends for
\* one zone, in the order of lines 422-451.
ZoneQueries(zone, hdmi_out) ==
    CASE zone = "main" ->
           <<Query(<<"P", "W", "R">>), Query(<<"M", "V", "L">>), Query(<<"I", "F", "A">>),
             Query(<<"I", "F", "V">>), Query(<<"L", "M", "D">>), Query(<<"P", "R", "S">>)>>
           \o (IF hdmi_out THEN <<Query(<<"H", "D", "O">>)>> ELSE <<>>)
           \o <<Query(<<"A", "M", "T">>), Query(<<"S", "L", "I">>)>>
      [] zone = "zone2" ->
           <<Query(<<"Z", "P", "W">>), Query(<<"Z", "V", "L">>), Query(<<"Z", "M", "T">>),
             Query(<<"S", "L", "Z">>)>>
      [] zone = "zone3" ->
           <<Query(<<"P", "W", "3">>), Query(<<"V", "L", "3">>), Query(<<"M", "T", "3">>),
             Query(<<"S", "L", "3">>)>>
      [] OTHER ->
           <<Query(<<"P", "W", "4">>), Query(<<"V", "L", "4">>), Query(<<"M", "T", "4">>),
             Query(<<"S", "L", "4">>)>>

\* What update() (lines 416-451) sends: the receiver-information query
\* while no inventory is known, then the queries of every zone, the main
\* zone's with the hdmi-output-selector query only while the capability flag
\* is set (line 440).
UpdateQueries(info, hdmi_out) ==
    (IF info = PyNone THEN <<Query(<<"N", "R", "I">>)>> ELSE <<>>)
    \o ZoneQueries(ZONE_NAMES[1], hdmi_out) \o ZoneQueries(ZONE_NAMES[2], hdmi_out)
    \o ZoneQueries(ZONE_NAMES[3], hdmi_out) \o ZoneQueries(ZONE_NAMES[4], hdmi_out)

\* raw and command, lines 363-373: _ensure_socket_connected() connects a
\* socket that is not connected, then the messages go to the transport.
EnsureAndSend(msgs) ==
    /\ conn' = "up"
    /\ outbox' = outbox \o msgs

\* Variant: an update that clears the state before it queries the device.
UpdateClearing ==
    /\ running = 0
    /\ EnsureAndSend(UpdateQueries(receiver_info, hdmi_out_supported))
    /\ data' = InitData
    /\ UNCHANGED <<callVars, capVars, xmlVars, infoVars, began, hass, receiver_info, merges, carried, listeners,
                   syncCommands, heap, waiters, running, loopQueue, readerVars, notified,
                   regAt, sound_modes, aliased, receiver_udp_info, seen>>

\* update, lines 416-451.
Update ==
    /\ running = 0
    /\ EnsureAndSend(UpdateQueries(receiver_info, hdmi_out_supported))
    /\ UNCHANGED <<callVars, capVars, xmlVars, infoVars, began, hass, storeVars, listeners, syncCommands, heap, waiters, running,
                   loopQueue, readerVars, notified, regAt, sound_modes, aliased,
                   receiver_udp_info, seen>>

\* command, lines 369-373, with m the message command_to_iscp gives.
Command(m) ==
    /\ running = 0
    /\ EnsureAndSend(<<m>>)
    /\ UNCHANGED <<callVars, capVars, xmlVars, infoVars, began, hass, storeVars, listeners, syncCommands, heap, waiters, running,
                   loopQueue, readerVars, notified, regAt, sound_modes, aliased,
                   receiver_udp_info, seen>>

\* raw, lines 363-367.
Raw(m) ==
    /\ running = 0
    /\ EnsureAndSend(<<m>>)
    /\ UNCHANGED <<callVars, capVars, xmlVars, infoVars, began, hass, storeVars, listeners, syncCommands, heap, waiters, running,
                   loopQueue, readerVars, notified, regAt, sound_modes, aliased,
                   receiver_udp_info, seen>>

\* f"{source_id:02x}": two lower-case hexadecimal digits.
Hex02(n) ==
    LET digit(d) == <<"0", "1", "2", "3", "4", "5", "6", "7",
                      "8", "9", "a", "b", "c", "d", "e", "f">>[d + 1]
    IN  <<digit((n \div 16) % 16), digit(n % 16)>>

\* COMMAND_MAPPINGS[zone]["input-selector" or "selector"] of the eiscp library.
SelectorPrefix(zone) ==
    CASE zone = "main" -> <<"S", "L", "I">>
      [] zone = "zone2" -> <<"S", "L", "Z">>
      [] zone = "zone3" -> <<"S", "L", "3">>
      [] OTHER -> <<"S", "L", "4">>

\* select_source, lines 407-410.
SelectSource(zone, source_id) ==
    /\ running = 0
    /\ EnsureAndSend(<<SelectorPrefix(zone) \o Hex02(source_id)>>)
    /\ UNCHANGED <<callVars, capVars, xmlVars, infoVars, began, hass, storeVars, listeners, syncCommands, heap, waiters, running,
                   loopQueue, readerVars, notified, regAt, sound_modes, aliased,
                   receiver_udp_info, seen>>

\* disconnect, lines 227-229: Receiver.disconnect() of the eiscp library
\* stops the reader thread, waiting for the handler it is running, and
\* closes the socket.  Nothing of the OnkyoReceiver is written.
Disconnect ==
    /\ running = 0
    /\ readerPc \in {"idle", "dead"}
    /\ conn # "closed"
    /\ conn' = "closed"
    /\ UNCHANGED <<callVars, capVars, xmlVars, infoVars, began, hass, storeVars, listeners, syncCommands, heap, waiters, running,
                   loopQueue, outbox, readerVars, notified, regAt, sound_modes, aliased,
                   receiver_udp_info, seen>>

\* ------------------------------------- reader thread: listening modes
\* The listening-mode reports the model's device sends.
ModeMessages == {LMD00, LMD01}

\* _on_message_async, lines 267-276, for a listening-mode message whose
\* value decodes to one name, with sm the dict self._sound_modes: the dict
\* after the branch, whether the mode was appended to the zone's list, and
\* the updates collected.  The list stored in the updates at line 274 is the
\* list object of _sound_modes itself.
ListeningMode(m, sm) ==
    LET dec == iscp_to_command(m)
        zone_key == ZoneKey(dec.zone)
        sound_mode == dec.attrib.v
        before == IF zone_key \in DOMAIN sm THEN sm[zone_key] ELSE <<>>
        appended == ~InSeq(sound_mode, before)
        after == IF appended THEN Append(before, sound_mode) ELSE before
    IN  [zone_key |-> zone_key,
         appended |-> appended,
         modes |-> after,
         sound_modes |-> Override(sm, [k \in {zone_key} |-> after]),
         updates |-> [k \in {zone_key} |->
                        PyDict([a \in (IF appended THEN {"sound_mode_list"} ELSE {})
                                      \cup {"sound_mode"} |->
                                  IF a = "sound_mode" THEN PyStr(sound_mode)
                                  ELSE PyList(after)])]]

\* The handler's local updates, as a holder of a list of modes.
UpdatesHolder == "updates"

\* _on_message_async, lines 236-292, for a listening-mode message: the try
\* block.  The append of line 273 shows at once in data when the zone's
\* list in data is the list object of _sound_modes.
ReaderTryMode(m) ==
    /\ readerPc = "idle"
    /\ cur' = m
    /\ handled' = handled + 1
    /\ LET r == ListeningMode(m, sound_modes)
       IN  /\ sound_modes' = r.sound_modes
           /\ updates' = r.updates
           /\ data' = IF r.appended /\ r.zone_key \in aliased
                      THEN WithModeList(data, r.zone_key, r.modes)
                      ELSE data
           /\ aliased' = IF r.appended THEN aliased \cup {UpdatesHolder}
                         ELSE aliased \ {UpdatesHolder}
    /\ began' = data
    /\ readerPc' = "merge"
    /\ UNCHANGED <<callVars, capVars, xmlVars, infoVars, hass, receiver_info, merges, carried, listeners, syncCommands,
                   heap, waiters, running, loopQueue, outbox, curSc, idx, raised, notified,
                   regAt, receiver_udp_info, seen, conn>>

\* _on_message_async, lines 296-303, after ReaderTryMode: the merge, which
\* stores the list object the updates carry, and the hand-over to the
\* listeners.
ReaderMerge ==
    /\ readerPc = "merge"
    /\ data' = MergeUpdates(data, updates)
    /\ aliased' = {h \in ZoneKeys \cup {UpdatesHolder} :
                      IF h \in DOMAIN updates /\ "sound_mode_list" \in DOMAIN updates[h].v
                      THEN UpdatesHolder \in aliased
                      ELSE h \in aliased}
    /\ merges' = merges + 1
    /\ carried' = Override(carried, ZoneAttrs(updates))
    /\ loopQueue' = loopQueue \o ListenerDispatches(hass, listeners, handled)
    /\ readerPc' = "check"
    /\ UNCHANGED <<callVars, capVars, xmlVars, infoVars, began, hass, receiver_info, listeners, syncCommands, heap, waiters,
                   running, outbox, cur, updates, curSc, idx, handled, raised, notified,
                   regAt, sound_modes, receiver_udp_info, seen, conn>>

\* ------------------------------------------------- event loop: reading
\* OnkyoDataUpdateCoordinator._async_update_data (__init__.py, lines
\* 123-131): update(), then the read of data.  The snapshot is kept with
\* the updates of the message the reader thread is in the middle of, and
\* with data as it was when the handler took that message up.
ReadData ==
    /\ running = 0
    /\ EnsureAndSend(UpdateQueries(receiver_info, hdmi_out_supported))
    /\ seen' = [data |-> data,
                during |-> IF readerPc = "merge" THEN updates ELSE NoUpdates,
                began |-> began]
    /\ UNCHANGED <<callVars, capVars, xmlVars, infoVars, began, hass, storeVars, listeners, syncCommands, heap, waiters, running,
                   loopQueue, readerVars, notified, regAt, sound_modes, aliased,
                   receiver_udp_info>>

\* The receiver with its state store in use: the coordinator registers its
\* listener (__init__.py, line 115), the stored modes are loaded before
\* the first message, the discovery answer is read, commands are
\* sent, the connection is closed and reopened, the device reports power
\* and listening modes, and the coordinator reads the state once.
NextStore ==
    \/ listeners = <<>> /\ RegisterListener
    \/ \E st \in StoredData : handled = 0 /\ LoadData(st)
    \/ \E r \in UdpReplies : CommandUdpInfo(r)
    \/ Len(outbox) < MaxOutbox /\ Update
    \/ \E m \in {PWRQSTN} : Len(outbox) < MaxOutbox /\ Command(m)
    \/ \E m \in {PWR01} : Len(outbox) < MaxOutbox /\ Raw(m)
    \/ \E z \in {"main", "zone2"}, s \in {43} :
          Len(outbox) < MaxOutbox /\ SelectSource(z, s)
    \/ Disconnect
    \/ seen = NoSnapshot /\ Len(outbox) < MaxOutbox /\ ReadData
    \/ LoopDispatch
    \/ \E m \in ModeMessages : conn = "up" /\ handled < MaxStoreMsgs /\ ReaderTryMode(m)
    \/ ReaderMerge
    \/ \E m \in {PWR01} : conn = "up" /\ handled < MaxStoreMsgs /\ ReaderReceive(m)
    \/ ReaderPop

InitStore == InitCore /\ InitOps /\ hass = TRUE /\ xmlDoc = NoDoc /\ xmlResult = NoDoc

SpecStore == InitStore /\ [][NextStore]_vars

\* ------------------------------------------------------- the connection
MaxConnMsgs == 1
MaxConnSends == 2

\* An I/O error on the socket: the transport tears the socket down.
SocketError ==
    /\ readerPc \in {"idle", "dead"}
    /\ conn = "up"
    /\ conn' = "down"
    /\ UNCHANGED <<callVars, capVars, xmlVars, infoVars, began, hass, storeVars, listeners, syncCommands, heap, waiters,
                   running, loopQueue, outbox, readerVars, notified, regAt, sound_modes,
                   aliased, receiver_udp_info, seen>>

\* Awaited calls, with and without a timeout, over a connection that is
\* lost to I/O errors, closed by disconnect and reopened by the next
\* command; the device answers only over a connected socket.
NextConn ==
    \/ \E w \in Waiters, cmd \in {PWRQSTN} : Start(w, cmd)
    \/ \E w \in Waiters, cmd \in {PWRQSTN} : StartUntimed(w, cmd)
    \/ \E w \in Waiters : AddEvent(w)
    \/ \E w \in Waiters : SendWait(w)
    \/ \E w \in Waiters : Timeout(w)
    \/ LoopSet
    \/ LoopWake
    \/ \E m \in {PWR01} : conn = "up" /\ handled < MaxConnMsgs /\ ReaderReceive(m)
    \/ ReaderPop
    \/ ReaderSignal
    \/ SocketError
    \/ Disconnect
    \/ \E m \in {PWRQSTN} : Len(outbox) < MaxConnSends /\ Command(m)

SpecConn == InitLoop /\ [][NextConn]_vars

\* The same, with the scheduling the code relies on: a task that can run
\* runs, a callback handed to the event loop is run, the reader thread
\* finishes the handler it is in, and a timeout that is running elapses.
\* Nothing makes the device answer or the caller reconnect.
FairConn ==
    /\ \A w \in Waiters : WF_vars(AddEvent(w)) /\ WF_vars(SendWait(w)) /\ WF_vars(Timeout(w))
    /\ WF_vars(LoopSet)
    /\ WF_vars(LoopWake)
    /\ WF_vars(ReaderPop)
    /\ WF_vars(ReaderSignal)

SpecConnFair == SpecConn /\ FairConn

\* ------------------------------------------------- inventory resolution
MaxInfoMsgs == 2

\* COMMANDS[zone][selector command]['values'] of the eiscp library, cut to
\* a few entries: the value ids in table order, each with its name or names.
SelectorValues(zone) ==
    IF zone = "main"
    THEN <<[id |-> <<"2", "3">>, name |-> <<"cd", "tv/cd">>],
           [id |-> <<"2", "4">>, name |-> <<"fm">>],
           [id |-> <<"U", "P">>, name |-> <<"up">>],
           [id |-> <<"Q", "S", "T", "N">>, name |-> <<"query">>]>>
    ELSE <<[id |-> <<"2", "3">>, name |-> <<"cd", "tv/cd">>],
           [id |-> <<"7", "F">>, name |-> <<"off">>],
           [id |-> <<"Q", "S", "T", "N">>, name |-> <<"query">>]>>

\* "/".join(name).upper() for the names of the table (lines 107-110).
JoinUpper(name) ==
    CASE name = <<"cd", "tv/cd">> -> "CD/TV/CD"
      [] name = <<"fm">> -> "FM"
      [] name = <<"off">> -> "OFF"
      [] name = <<"up">> -> "UP"
      [] OTHER -> "QUERY"

\* The value ids default() makes sources of (line 106).
SourceIds(zone) ==
    SelectSeq([i \in 1..Len(SelectorValues(zone)) |-> SelectorValues(zone)[i].id],
              LAMBDA id : id \notin {<<"U", "P">>, <<"D", "O", "W", "N">>, <<"Q", "S", "T", "N">>})

\* Variant: a source object per zone and value, with no look-up of the id
\* in source_mapping.
RECURSIVE SourceMappingPerZone(_)
SourceMappingPerZone(n) ==
    IF n = 0 THEN <<>>
    ELSE LET vals == SelectSeq(SelectorValues(ZONE_NAMES[n]),
                               LAMBDA v : InSeq(v.id, SourceIds(ZONE_NAMES[n])))
         IN  SourceMappingPerZone(n - 1)
                 \o [i \in 1..Len(vals) |-> [id |-> vals[i].id, name |-> JoinUpper(vals[i].name)]]

\* source_mapping after the zones 1..n of default(): (id, name) in order of
\* first insertion; the zone that inserts an id gives the source its name.
RECURSIVE SourceMapping(_)
SourceMapping(n) ==
    IF n = 0 THEN <<>>
    ELSE LET before == SourceMapping(n - 1)
             vals == SelectorValues(ZONE_NAMES[n])
             fresh == SelectSeq(vals, LAMBDA v :
                         /\ InSeq(v.id, SourceIds(ZONE_NAMES[n]))
                         /\ \A i \in 1..Len(before) : before[i].id # v.id)
         IN  before \o [i \in 1..Len(fresh) |-> [id |-> fresh[i].id,
                                                 name |-> JoinUpper(fresh[i].name)]]

\* ReceiverInfo.default(model, serial), lines 91-119: four zones, every
\* source of the command table, the serial for the MAC address.  Zones and
\* sources refer to each other by position, as in from_xml.
default(model, serial) ==
    LET map == SourceMapping(Len(ZONE_NAMES))
        Has(z, j) == InSeq(map[j].id, SourceIds(ZONE_NAMES[z]))
    IN  [model |-> model,
         serial |-> serial,
         productid |-> "N/A",
         macaddress |-> serial,
         zones |-> [z \in 1..Len(ZONE_NAMES) |->
                      [id |-> z,
                       name |-> ZONE_NAMES[z],
                       volmax |-> PyNone,
                       sources |-> SelectSeq([j \in 1..Len(map) |-> j], LAMBDA j : Has(z, j))]],
         sources |-> [j \in 1..Len(map) |->
                        [id |-> HexValue(map[j].id),
                         name |-> map[j].name,
                         zones |-> SelectSeq([z \in 1..Len(ZONE_NAMES) |-> z],
                                             LAMBDA z : Has(z, j))]]]

\* Everything get_all_receiver_info neither reads nor writes.
infoFrame == <<callVars, capVars, xmlVars, hass, listeners, syncCommands, heap, waiters, running, loopQueue,
               readerVars, notified, regAt, merges, carried, sound_modes, aliased, seen,
               began, conn>>

\* The retries of line 172.
InfoRetries == 3

\* get_all_receiver_info, lines 169-172: the first call goes on, any later
\* call returns at once.
GetAllReceiverInfo ==
    /\ running = 0
    /\ infoPc = "idle"
    /\ ~retrieved_receiver_info
    /\ retrieved_receiver_info' = TRUE
    /\ retries' = InfoRetries
    /\ infoPc' = "attempt"
    /\ UNCHANGED <<infoFrame, data, receiver_info, receiver_udp_info, outbox, tasks>>

\* Lines 173-177, one attempt: the two tasks are created and asyncio.wait
\* lets them run.  The command_async task registers its event, hands the
\* receiver-information query to the transport and waits; the
\* command_udp_info task has no await and runs to its end, reading what
\* self._receiver.info gives.
Attempt(reply) ==
    /\ running = 0
    /\ infoPc = "attempt"
    /\ retries > 0
    /\ tasks' = Append(tasks, "pending")
    /\ outbox' = Append(outbox, Query(<<"N", "R", "I">>))
    /\ IF Truthy(receiver_udp_info)
       THEN UNCHANGED <<receiver_udp_info, data>>
       ELSE /\ receiver_udp_info' = reply
            /\ data' = IF Truthy(reply)
                       THEN PyDict(Override(data.v, [k \in {"name"} |-> reply.v["model_name"]]))
                       ELSE data
    /\ infoPc' = "wait"
    /\ UNCHANGED <<infoFrame, receiver_info, retrieved_receiver_info, retries>>

\* _on_message_async, lines 305-309, SyncCommand._set_result and the
\* command_async task (lines 383-395) in one step: a receiver-information
\* message resolves the task that waits for it.
ReaderResolveInfo ==
    /\ readerPc = "check"
    /\ readerPc' = "idle"
    /\ tasks' = IF Prefix(cur) = <<"N", "R", "I">>
                THEN [i \in 1..Len(tasks) |-> IF tasks[i] = "pending" THEN "done" ELSE tasks[i]]
                ELSE tasks
    /\ UNCHANGED <<callVars, capVars, xmlVars, opVars, hass, storeVars, listeners, syncCommands, heap, waiters,
                   running, loopQueue, outbox, cur, updates, curSc, idx, handled, raised,
                   notified, regAt, retrieved_receiver_info, infoPc, retries>>

\* Variant: the pending task is left as it is.
WaitKeepsPending ==
    /\ running = 0
    /\ infoPc = "wait"
    /\ IF \E i \in 1..Len(tasks) : tasks[i] = "pending"
       THEN /\ retries' = retries - 1
            /\ infoPc' = IF retries - 1 > 0 THEN "attempt" ELSE "check"
       ELSE /\ retries' = retries
            /\ infoPc' = "check"
    /\ UNCHANGED <<infoFrame, data, receiver_info, receiver_udp_info, outbox,
                   retrieved_receiver_info, tasks>>

\* Lines 177-183: asyncio.wait returns, at once when both tasks are done,
\* else at the timeout of 2 seconds.  A task still pending is cancelled and
\* a retry is used up; with none pending the loop is left.
WaitReturns ==
    /\ running = 0
    /\ infoPc = "wait"
    /\ IF \E i \in 1..Len(tasks) : tasks[i] = "pending"
       THEN /\ tasks' = [i \in 1..Len(tasks) |->
                           IF tasks[i] = "pending" THEN "cancelled" ELSE tasks[i]]
            /\ retries' = retries - 1
            /\ infoPc' = IF retries - 1 > 0 THEN "attempt" ELSE "check"
       ELSE /\ UNCHANGED <<tasks, retries>>
            /\ infoPc' = "check"
    /\ UNCHANGED <<infoFrame, data, receiver_info, receiver_udp_info, outbox,
                   retrieved_receiver_info>>

\* Line 184: the test for the fallback.
FallbackCheck ==
    /\ running = 0
    /\ infoPc = "check"
    /\ infoPc' = IF receiver_info = PyNone /\ Truthy(receiver_udp_info) THEN "assign" ELSE "done"
    /\ UNCHANGED <<infoFrame, data, receiver_info, receiver_udp_info, outbox,
                   retrieved_receiver_info, retries, tasks>>

\* Lines 185-186: the default inventory is stored.  The reader thread runs
\* beside the event loop thread, so a message can be handled between the
\* test and this assignment.
FallbackAssign ==
    /\ running = 0
    /\ infoPc = "assign"
    /\ receiver_info' = PyInfo(default(receiver_udp_info.v["model_name"].v,
                                       receiver_udp_info.v["identifier"].v))
    /\ infoPc' = "done"
    /\ UNCHANGED <<infoFrame, data, receiver_udp_info, outbox, retrieved_receiver_info,
                   retries, tasks>>

\* get_all_receiver_info beside the reader thread, the device sending
\* self-descriptions (one of them without a model) and a power report.
NextInfo ==
    \/ GetAllReceiverInfo
    \/ \E r \in UdpReplies : Attempt(r)
    \/ WaitReturns
    \/ FallbackCheck
    \/ FallbackAssign
    \/ \E m \in {NRI_OK, NRI_NOMODEL, PWR01} : handled < MaxInfoMsgs /\ ReaderReceive(m)
    \/ ReaderResolveInfo

SpecInfo == InitLoop /\ [][NextInfo]_vars

\* ------------------------------------------ capabilities and sources
\* Messages handled, and commands update() may have sent before a further
\* cycle starts, in one behaviour.
MaxCapMsgs == 2
MaxCapSends == 25

\* The reports of capabilities and sources arrive while update() runs its
\* cycles.
NextCaps ==
    \/ \E m \in {HDONA, HDO01, IFANA, IFA_PCM, IFVNA, SLI23, SLI7F, SLZ02, SLINA} :
          handled < MaxCapMsgs /\ ReaderReceive(m)
    \/ ReaderPop
    \/ Len(outbox) <= MaxCapSends /\ Update

SpecCaps == InitLoop /\ [][NextCaps]_vars

\* ------------------------------------------------------ setup of an entry
\* Messages handled in one behaviour of the setup.
MaxSetupMsgs == 1

\* async_setup_entry (__init__.py), lines 33-42: the OnkyoReceiver is the
\* one constructed in Init; load_data is awaited, and get_receiver_info is
\* called, whose get_all_receiver_info then resolves the inventory.
SetupEntry(stored) ==
    /\ running = 0
    /\ hass
    /\ setup.pc = "idle"
    /\ infoPc = "idle"
    /\ data' = Loaded(stored).data
    /\ sound_modes' = Loaded(stored).sound_modes
    /\ aliased' = Loaded(stored).aliased
    /\ setup' = [setup EXCEPT !.pc = "info"]
    /\ UNCHANGED <<capVars, xmlVars, infoVars, began, hass, receiver_info, merges, carried,
                   listeners, syncCommands, heap, waiters, running, loopQueue, outbox,
                   readerVars, notified, regAt, receiver_udp_info, seen, conn, second, flowVars>>

\* Line 42 returns: get_receiver_info gives _receiver_info when
\* get_all_receiver_info has ended.
SetupGotInfo ==
    /\ running = 0
    /\ setup.pc = "info"
    /\ infoPc = "done"
    /\ setup' = [setup EXCEPT !.pc = "basic", !.info = receiver_info]
    /\ UNCHANGED <<capVars, extVars, hass, storeVars, listeners, syncCommands, heap, waiters,
                   running, loopQueue, outbox, readerVars, notified, regAt, second, flowVars>>

\* Line 43: onkyo_receiver.get_basic_receiver_info is looked up.
\* OnkyoReceiver (onkyo.py, lines 20-473) defines no such attribute and no
\* __getattr__, so the lookup raises AttributeError, which the handler of
\* ConnectionError (line 65) does not catch: async_setup_entry ends with the
\* exception, before lines 44-86.
SetupBasicInfo ==
    /\ running = 0
    /\ setup.pc = "basic"
    /\ setup' = [setup EXCEPT !.pc = "raised", !.result = "AttributeError"]
    /\ UNCHANGED <<capVars, extVars, hass, storeVars, listeners, syncCommands, heap, waiters,
                   running, loopQueue, outbox, readerVars, notified, regAt, second, flowVars>>

\* The setup of an entry beside the reader thread.
NextSetup ==
    \/ \E st \in StoredData : SetupEntry(st)
    \/ setup.pc = "info" /\ GetAllReceiverInfo
    \/ \E r \in UdpReplies : Attempt(r)
    \/ WaitReturns
    \/ FallbackCheck
    \/ FallbackAssign
    \/ SetupGotInfo
    \/ SetupBasicInfo
    \/ \E m \in {NRI_OK, PWR01} : handled < MaxSetupMsgs /\ ReaderReceive(m)
    \/ ReaderResolveInfo

SpecSetup == InitLoop /\ [][NextSetup]_vars

\* ---------------------------------------- callers of get_receiver_info
\* Variant: a call that finds no inventory runs the resolution again.
SecondCallResolvesAgain ==
    /\ running = 0
    /\ second.pc = "idle"
    /\ retrieved_receiver_info
    /\ infoPc \in {"wait", "done"}
    /\ second' = [pc |-> "returned", result |-> receiver_info, at |-> infoPc]
    /\ IF infoPc = "done" /\ receiver_info = PyNone
       THEN /\ infoPc' = "attempt"
            /\ retries' = 1
       ELSE UNCHANGED <<infoPc, retries>>
    /\ UNCHANGED <<capVars, xmlVars, opVars, retrieved_receiver_info, tasks, hass, storeVars,
                   listeners, syncCommands, heap, waiters, running, loopQueue, outbox,
                   readerVars, notified, regAt, setup, flowVars>>

\* get_receiver_info (lines 188-190) called while _retrieved_receiver_info
\* is set: get_all_receiver_info skips its body (line 169) and the call
\* returns _receiver_info at once.  The event loop runs such a call while
\* the resolving call is suspended in asyncio.wait (line 177), or after it
\* has ended.
SecondCall ==
    /\ running = 0
    /\ second.pc = "idle"
    /\ retrieved_receiver_info
    /\ infoPc \in {"wait", "done"}
    /\ second' = [pc |-> "returned", result |-> receiver_info, at |-> infoPc]
    /\ UNCHANGED <<capVars, extVars, hass, storeVars, listeners, syncCommands, heap, waiters,
                   running, loopQueue, outbox, readerVars, notified, regAt, setup, flowVars>>

\* Inventory resolution with a second caller beside it.
NextCalls == NextInfo \/ SecondCall

SpecCalls == InitLoop /\ [][NextCalls]_vars

\* ------------------------------------------- messages that decode to nothing
\* Messages handled in one behaviour of the calls below.
MaxDecodeMsgs == 2

\* Calls of raw_async whose answers the handler cannot decode: a source
\* report with a payload that is no hex number (ValueError at line 259), a
\* message of no command table (ValueError at line 238), beside a source
\* report that decodes and a self-description that raises out of the
\* handler.
NextDecode ==
    \/ \E w \in Waiters,
          cmd \in {Query(<<"S", "L", "I">>), Query(<<"X", "Y", "Z">>)} : StartUntimed(w, cmd)
    \/ \E w \in Waiters : AddEvent(w)
    \/ \E w \in Waiters : SendWait(w)
    \/ LoopSet
    \/ LoopWake
    \/ \E m \in {SLINA, XYZ01, SLI23, NRI_MALFORMED} :
          handled < MaxDecodeMsgs /\ ReaderReceive(m)
    \/ ReaderPop
    \/ ReaderSignal

SpecDecode == InitLoop /\ [][NextDecode]_vars

\* ------------------------------------------ the two builders of ReceiverInfo
\* Self-descriptions with every zone installed in which the second <zone>
\* element repeats the id of the first.
DuplicateIdDocs ==
    {[d EXCEPT !.zones[2].id = d.zones[1].id] :
        d \in {g \in GeneratedDocs : \A k \in 1..Len(g.zones) : DecValue(g.zones[k].value) > 0}}

\* ReceiverInfo.from_xml (lines 54-89) applied to a document.
FromXml(doc) ==
    /\ xmlDoc = NoDoc
    /\ xmlDoc' = doc
    /\ xmlResult' = from_xml(doc)
    /\ UNCHANGED <<callVars, capVars, hass, storeVars, listeners, syncCommands, heap, waiters,
                   running, loopQueue, outbox, readerVars, notified, regAt, opVars, infoVars>>

\* ReceiverInfo.default, as the fallback of get_all_receiver_info calls it
\* when no self-description arrives, and then from_xml on a document.
NextAssoc ==
    \/ GetAllReceiverInfo
    \/ \E r \in UdpReplies : Attempt(r)
    \/ WaitReturns
    \/ FallbackCheck
    \/ FallbackAssign
    \/ /\ infoPc = "done"
       /\ receiver_info # PyNone
       /\ xmlDoc = NoDoc
       /\ \E doc \in GeneratedDocs \cup DuplicateIdDocs : FromXml(doc)

SpecAssoc == InitLoop /\ [][NextAssoc]_vars

\* ------------------------------------------------- modes learnt and loaded
\* load_data at any moment of the instance's life, beside the reader thread
\* handling listening-mode reports.
NextModes ==
    \/ \E st \in StoredData : LoadData(st)
    \/ \E m \in ModeMessages : handled < MaxStoreMsgs /\ ReaderTryMode(m)
    \/ ReaderMerge
    \/ ReaderPop

SpecModes == InitStore /\ [][NextModes]_vars

\* ------------------------------------ config flow of hass_onkyo_ng
\* Hosts a user submits or zeroconf reports, as the parts between the dots,
\* each the sequence of its characters: 10.0.0.5, 10.0.0.7, 10.0.0.256 and
\* the name "avr".
HostA == <<<<"1", "0">>, <<"0">>, <<"0">>, <<"5">>>>
HostB == <<<<"1", "0">>, <<"0">>, <<"0">>, <<"7">>>>
HostBadOctet == <<<<"1", "0">>, <<"0">>, <<"0">>, <<"2", "5", "6">>>>
HostName == <<<<"a", "v", "r">>>>

\* host_valid (config_flow.py, lines 29-36): ipaddress.ip_address accepts
\* four decimal parts of at most three digits, none above 255 and none with
\* a leading zero; the hosts of the model have no colon, so the IPv6 form
\* does not arise.  A ValueError gives False.
host_valid(host) ==
    /\ Len(host) = 4
    /\ \A i \in 1..Len(host) :
          /\ Len(host[i]) \in 1..3
          /\ IsDec(host[i])
          /\ Len(host[i]) > 1 => host[i][1] # "0"
          /\ DecValue(host[i]) <= 255

\* The FlowResult of async_show_form.
ShowForm(step_id, errors) ==
    [NoResult EXCEPT !.type = "form", !.step_id = step_id, !.errors = errors]

\* The step ends with an exception it does not catch.
StepRaised(exc) == [NoResult EXCEPT !.type = "raised", !.exc = exc]

\* async_step_user (config_flow.py, lines 78-133) called with no input: the
\* form is shown with no error.
UserStepShow ==
    /\ running = 0
    /\ userFlow.pc = "idle"
    /\ userFlow.result = NoResult
    /\ userFlow' = [userFlow EXCEPT !.result = ShowForm("user", <<>>)]
    /\ UNCHANGED <<setup, second, zcFlow, ngFlow, capVars, extVars, hass, storeVars, listeners,
                   syncCommands, heap, waiters, running, loopQueue, outbox, readerVars,
                   notified, regAt>>

\* async_step_user, lines 84-93, with the form submitted: a host that is no
\* IP address ends the step with the form and the error of line 121; else
\* OnkyoReceiver(host, hass=None) is constructed, which leaves
\* _receiver_info None (onkyo.py, line 135) and sends nothing.
UserStepSubmit(user_input) ==
    /\ running = 0
    /\ ~hass
    /\ userFlow.pc = "idle"
    /\ userFlow.result.type = "form"
    /\ userFlow.created = 0
    /\ IF ~host_valid(user_input.host)
       THEN userFlow' = [userFlow EXCEPT
                           !.input = user_input,
                           !.result = ShowForm("user", [k \in {"host"} |-> "Wrong host"])]
       ELSE userFlow' = [userFlow EXCEPT !.pc = "created", !.input = user_input,
                                         !.created = @ + 1]
    /\ UNCHANGED <<setup, second, zcFlow, ngFlow, capVars, extVars, hass, storeVars, listeners,
                   syncCommands, heap, waiters, running, loopQueue, outbox, readerVars,
                   notified, regAt>>

\* async_step_user, lines 94-128: _receiver_info is read as it is.  None
\* raises ConnectionError (line 100), which ends the step with the form and
\* the error of line 123.  A ReceiverInfo is true, and info['macaddress']
\* (line 103) raises TypeError, for the class defines no __getitem__
\* (onkyo.py, lines 42-52): lines 104-118 run for no value the attribute can
\* hold.  On both ways the finally clause disconnects the receiver (line
\* 113), which waits for the handler the reader thread is in.
UserStepCheck ==
    /\ running = 0
    /\ userFlow.pc = "created"
    /\ readerPc \in {"idle", "dead"}
    /\ conn' = "closed"
    /\ userFlow' = [userFlow EXCEPT
                      !.pc = "idle",
                      !.disconnected = @ + 1,
                      !.result = IF receiver_info = PyNone
                                 THEN ShowForm("user",
                                               [k \in {"host"} |-> "Cannot connect to device"])
                                 ELSE StepRaised("TypeError")]
    /\ UNCHANGED <<setup, second, zcFlow, ngFlow, capVars, xmlVars, infoVars, sound_modes,
                   aliased, receiver_udp_info, seen, began, hass, storeVars, listeners,
                   syncCommands, heap, waiters, running, loopQueue, outbox, readerVars,
                   notified, regAt>>

\* What eiscp.eISCP.discover() returns: the info of each device that
\* answered, in order.  The second device reports no identifier.
DeviceA == [host |-> HostA, identifier |-> "0009B0123456", model_name |-> "TX-NR609"]
DeviceB == [host |-> HostB, identifier |-> "", model_name |-> "TX-8050"]
Discoveries == {<<>>, <<DeviceA>>, <<DeviceB, DeviceA>>}

\* The config entries of the integration when the flow starts: none, or the
\* one of the first device.
EntrySets == {{}, {[host |-> HostA, unique_id |-> "0009B0123456"]}}

\* The FlowResult of async_create_entry.
CreateEntry(title, entry_data) ==
    [NoResult EXCEPT !.type = "create_entry", !.title = title, !.data = entry_data]

\* AbortFlow raised by _async_abort_entries_match or
\* _abort_if_unique_id_configured of the ConfigFlow base class: the flow
\* ends with an abort result.
AbortFlow(reason) == [NoResult EXCEPT !.type = "abort", !.reason = reason]

\* async_step_zeroconf_confirm (config_flow.py, lines 189-219) for the host
\* the flow holds: with input the entry is created from it; with none, line
\* 206 subscripts None, which raises TypeError before the form of line 207
\* is built.
ZeroconfConfirm(user_input, host) ==
    IF user_input # PyNone
    THEN CreateEntry(user_input.name,
                     [name |-> user_input.name, host |-> host,
                      scan_interval |-> user_input.scan_interval])
    ELSE StepRaised("TypeError")

\* async_step_zeroconf (config_flow.py, lines 135-187) for the host zeroconf
\* reports, the devices discover() finds and the entries there are.  An
\* entry with the host aborts the flow (line 147); no device with the host
\* raises ConnectionError (line 160); the result of async_abort at line 170
\* is dropped, so a device without identifier goes on; an entry with the
\* device's identifier aborts the flow (line 174); else the placeholders
\* are stored and the step returns what async_step_zeroconf_confirm gives
\* when it is called with no input (line 187).
StepZeroconf(host, devices, entries) ==
    /\ running = 0
    /\ zcFlow.pc = "idle"
    /\ LET matching == SelectSeq(devices, LAMBDA d : d.host = host)
           found == Len(matching) > 0
           info == matching[1]
           ctx == [name |-> info.model_name, scan_interval |-> 30]
           result ==
               IF \E e \in entries : e.host = host THEN AbortFlow("already_configured")
               ELSE IF ~found THEN StepRaised("ConnectionError")
               ELSE IF \E e \in entries : e.unique_id = info.identifier
               THEN AbortFlow("already_configured")
               ELSE ZeroconfConfirm(PyNone, host)
       IN  zcFlow' = [pc |-> "done",
                      host |-> host,
                      found |-> found,
                      configured |-> \E e \in entries :
                                        \/ e.host = host
                                        \/ found /\ e.unique_id = info.identifier,
                      context |-> IF result.type = "raised" /\ result.exc = "TypeError"
                                  THEN ctx ELSE PyNone,
                      result |-> result]
    /\ UNCHANGED <<setup, second, userFlow, ngFlow, capVars, extVars, hass, storeVars,
                   listeners, syncCommands, heap, waiters, running, loopQueue, outbox,
                   readerVars, notified, regAt>>

\* The two flows of hass_onkyo_ng beside the reader thread of the receiver
\* the user step constructs.
NextFlow ==
    \/ UserStepShow
    \/ \E n \in {"", "Living room"}, h \in {HostA, HostBadOctet, HostName} :
          UserStepSubmit([name |-> n, host |-> h, scan_interval |-> 30])
    \/ UserStepCheck
    \/ \E m \in {NRI_OK, PWR01} : userFlow.pc = "created" /\ handled < 1 /\ ReaderReceive(m)
    \/ ReaderPop
    \/ \E h \in {HostA, HostB}, ds \in Discoveries, es \in EntrySets : StepZeroconf(h, ds, es)

InitFlow == Init /\ hass = FALSE

SpecFlow == InitFlow /\ [][NextFlow]_vars

\* ------------------------------------------ config flow of onkyo_ng
\* _INPUT_SOURCE_MEANINGS and _LISTENING_MODES_MEANINGS (onkyo_ng/const.py,
\* lines 31-148), cut to three sources and two modes: value -> meaning.  The
\* middle dots of a meaning are written "...".
INPUT_SOURCE_MEANINGS ==
    [v \in {"12", "23", "24"} |->
        CASE v = "12" -> "TV" [] v = "23" -> "CD ... TV/CD" [] v = "24" -> "FM"]
LISTENING_MODES_MEANINGS ==
    [v \in {"00", "01"} |-> IF v = "00" THEN "STEREO" ELSE "DIRECT"]

\* InputSource.from_meaning and ListeningMode.from_meaning (const.py, lines
\* 209-212 and 304-307): the value of the member with that meaning;
\* __new__ fills the mapping, one meaning per member.
from_meaning(meanings, meaning) == CHOOSE v \in DOMAIN meanings : meanings[v] = meaning

\* Variant: the store that names every selected value by its meaning.
StoreOfMeanings(meanings, selected, existing) ==
    [v \in {from_meaning(meanings, selected[i]) : i \in 1..Len(selected)} |-> meanings[v]]

\* sources_store and modes_store (config_flow.py, lines 200-220): for each
\* selected meaning the member's value is given the name the existing
\* options hold for that value, or the meaning when there are no existing
\* options or they lack the value.
StoreOf(meanings, selected, existing) ==
    [v \in {from_meaning(meanings, selected[i]) : i \in 1..Len(selected)} |->
        IF existing # PyNone /\ v \in DOMAIN existing THEN existing[v] ELSE meanings[v]]

\* Variant: only the list of input sources is tested.
SubmissionErrorsSourcesOnly(user_input) ==
    IF user_input.input_sources = <<>>
    THEN [k \in {"input_sources"} |-> "empty_input_source_list"]
    ELSE <<>>

\* The errors of a submission (config_flow.py, lines 194-197): an empty
\* list of input sources, or else an empty list of listening modes.
SubmissionErrors(user_input) ==
    IF user_input.input_sources = <<>>
    THEN [k \in {"input_sources"} |-> "empty_input_source_list"]
    ELSE IF user_input.listening_modes = <<>>
    THEN [k \in {"listening_modes"} |-> "empty_listening_mode_list"]
    ELSE <<>>

\* OPTION_MAX_VOLUME_DEFAULT (const.py, line 26).
OPTION_MAX_VOLUME_DEFAULT == 100

\* Receivers the flow has interviewed or discovered, the options of the
\* entry a reconfigure flow works on, and what a user submits.
NgReceivers ==
    {[model_name |-> "TX-NR7100", host |-> HostA], [model_name |-> "TX-8050", host |-> HostB]}
NgEntries ==
    {[data |-> [host |-> HostA],
      options |-> [volume_resolution |-> 80,
                   max_volume |-> mv,
                   input_sources |-> [v \in {"12", "23"} |->
                                        IF v = "23" THEN "My CD" ELSE "Television"],
                   listening_modes |-> [v \in {"00"} |-> "Music"]]] : mv \in {42, 100}}
NgInputs ==
    {[volume_resolution |-> r, input_sources |-> s, listening_modes |-> m] :
        r \in {50, 200},
        s \in {<<>>, <<"CD ... TV/CD">>, <<"FM", "CD ... TV/CD">>, <<"TV", "FM">>},
        m \in {<<>>, <<"STEREO">>, <<"DIRECT", "STEREO">>, <<"DIRECT">>}}

\* async_step_configure_receiver (config_flow.py, lines 182-291) called
\* with no input by the manual or the discovery step, which has stored the
\* receiver's info: the form is shown with no error.  entry is the entry of
\* a reconfigure flow, PyNone in a flow the user started.
ConfigureReceiverShow(entry, info) ==
    /\ running = 0
    /\ ngFlow.pc = "idle"
    /\ ngFlow' = [pc |-> "form",
                  source |-> IF entry = PyNone THEN "user" ELSE "reconfigure",
                  receiver_info |-> info,
                  entry |-> entry,
                  before |-> entry,
                  input |-> PyNone,
                  result |-> ShowForm("configure_receiver", <<>>)]
    /\ UNCHANGED <<setup, second, userFlow, zcFlow, capVars, extVars, hass, storeVars,
                   listeners, syncCommands, heap, waiters, running, loopQueue, outbox,
                   readerVars, notified, regAt>>

\* async_step_configure_receiver with the form submitted.  A submission
\* with an error shows the form again (lines 264-291).  Else the stores are
\* built and the entry is created with the default max_volume (lines
\* 224-236), or, in a reconfigure flow, async_update_reload_and_abort
\* writes data and options to the entry, keeping the entry's max_volume, and
\* ends the flow with its abort result (lines 238-251).
ConfigureReceiverSubmit(user_input) ==
    /\ running = 0
    /\ ngFlow.pc = "form"
    /\ LET entry_options == IF ngFlow.source = "reconfigure" THEN ngFlow.entry.options
                            ELSE PyNone
           errors == SubmissionErrors(user_input)
           options ==
               [volume_resolution |-> user_input.volume_resolution,
                max_volume |-> IF entry_options = PyNone THEN OPTION_MAX_VOLUME_DEFAULT
                               ELSE entry_options.max_volume,
                input_sources |->
                    StoreOf(INPUT_SOURCE_MEANINGS, user_input.input_sources,
                            IF entry_options = PyNone THEN PyNone
                            ELSE entry_options.input_sources),
                listening_modes |->
                    StoreOf(LISTENING_MODES_MEANINGS, user_input.listening_modes,
                            IF entry_options = PyNone THEN PyNone
                            ELSE entry_options.listening_modes)]
           entry_data == [host |-> ngFlow.receiver_info.host]
       IN  IF errors # <<>>
           THEN ngFlow' = [ngFlow EXCEPT !.input = user_input,
                                         !.result = ShowForm("configure_receiver", errors)]
           ELSE IF entry_options = PyNone
           THEN ngFlow' = [ngFlow EXCEPT
                              !.pc = "done",
                              !.input = user_input,
                              !.result = [CreateEntry(ngFlow.receiver_info.model_name,
                                                      entry_data)
                                          EXCEPT !.options = options]]
           ELSE ngFlow' = [ngFlow EXCEPT
                              !.pc = "done",
                              !.input = user_input,
                              !.entry = [data |-> entry_data, options |-> options],
                              !.result = AbortFlow("reconfigure_successful")]
    /\ UNCHANGED <<setup, second, userFlow, zcFlow, capVars, extVars, hass, storeVars,
                   listeners, syncCommands, heap, waiters, running, loopQueue, outbox,
                   readerVars, notified, regAt>>

\* The configure_receiver step of a flow the user started and of a
\* reconfigure flow.
NextNg ==
    \/ \E e \in NgEntries \cup {PyNone}, info \in NgReceivers : ConfigureReceiverShow(e, info)
    \/ \E ui \in NgInputs : ConfigureReceiverSubmit(ui)

SpecNg == InitLoop /\ [][NextNg]_vars

\* =============================================================== claims
\* The try block with the instance's volume scale.
HandlerTry(m) == TryBlock(m, ONKYO_SUPPORTED_MAX_VOLUME, ONKYO_DEFAULT_RECEIVER_MAX_VOLUME)

Abandoned(w) == waiters[w].pc \in {"timeout", "cancelled"}
InTable(w) == \E p \in DOMAIN syncCommands : InEvents(w, syncCommands[p])
PosInEvents(w) ==
    CHOOSE i \in 1..Len(heap[waiters[w].sc].events) : heap[waiters[w].sc].events[i] = w

\* C1: a waiter registered for a prefix is signalled only by a message with
\* that prefix, it resumes only after being signalled, and the result it
\* returns is exactly the message that signalled it, whatever other
\* messages were handled meanwhile.
C1_ResolvedOnlyByMatchingMessage ==
    \A w \in Waiters :
        /\ waiters[w].sigSeq # 0 => Prefix(waiters[w].sig) = Prefix(waiters[w].cmd)
        /\ waiters[w].pc \in {"woken", "returned"} => waiters[w].sigSeq # 0
        /\ waiters[w].pc = "returned" => waiters[w].result = waiters[w].sig

\* A call awaiting PWR returned PWR01, the second message handled, after a
\* volume message was handled.
C1_Witness ==
    \E w \in Waiters :
        /\ waiters[w].pc = "returned"
        /\ waiters[w].cmd = PWRQSTN
        /\ waiters[w].result = PWR01
        /\ waiters[w].sigSeq = 2
        /\ data.v["zone_main"].v["volume"] # PyNone

\* C2: once a call was abandoned (timeout or cancellation) before any
\* matching message signalled it, its event is in no entry of the
\* correlation table.
C2_AbandonedWaiterRemoved ==
    \A w \in Waiters : (Abandoned(w) /\ waiters[w].sigSeq = 0) => ~InTable(w)

\* C3: a call that has ended, with the reply or with Timeout, had its
\* correlation entry removed from the table exactly once.
C3_EntryRemovedExactlyOnce ==
    \A w \in Waiters : waiters[w].pc \in {"returned", "timeout"} => waiters[w].removals = 1

C5_WaiterSignalledFirst ==
    \A i, j \in 1..Len(loopQueue) :
        (/\ loopQueue[i].kind = "dispatch"
         /\ loopQueue[j].kind = "set"
         /\ loopQueue[i].seq = loopQueue[j].seq)
        => j < i

\* C5 as amended: the handler first merges the update of a message and
\* hands its listeners to the event loop, and only afterwards checks the
\* correlation table: when the check is due the merge of the message's
\* update has been done and no waiter was signalled for the message, and a
\* listener dispatch is always queued ahead of a waiter signal of the same
\* message.
C5_ListenersScheduledFirst ==
    /\ \A i, j \in 1..Len(loopQueue) :
          (/\ loopQueue[i].kind = "dispatch"
           /\ loopQueue[j].kind = "set"
           /\ loopQueue[i].seq = loopQueue[j].seq)
          => i < j
    /\ readerPc \in {"check", "signal"} =>
          \A k \in DOMAIN ZoneAttrs(updates) : carried[k] = ZoneAttrs(updates)[k]
    /\ readerPc = "check" =>
          /\ \A w \in Waiters : waiters[w].sigSeq # handled
          /\ \A i \in 1..Len(loopQueue) :
                loopQueue[i].kind = "set" => loopQueue[i].seq # handled

\* The dispatch of a listener and the signal of a waiter, both of the
\* second message, are queued in that order.
C5_Witness ==
    \E i, j \in 1..Len(loopQueue) :
        /\ i < j
        /\ loopQueue[i].kind = "dispatch" /\ loopQueue[i].seq = 2
        /\ loopQueue[j].kind = "set" /\ loopQueue[j].seq = 2

\* C6: no waiter that has registered and is still waiting is passed over by
\* a matching message that reached the handler after the registration.
C6_FirstMatchingMessageDelivered ==
    \A w \in Waiters : ~waiters[w].missed

\* C7: a message whose decoding raises ValueError leaves the handler
\* normally, with the state, the stored receiver information and the
\* listeners' queue as they were, and the reader goes on to the correlation
\* check and then to the next message.
C7_DecodeFailureIsSoft ==
    [][/\ (readerPc = "idle" /\ handled' = handled + 1 /\ HandlerTry(cur').err = "ValueError")
          => /\ data' = data
             /\ receiver_info' = receiver_info
             /\ loopQueue' = loopQueue
             /\ updates' = NoUpdates
             /\ raised' = ""
             /\ readerPc' = "check"
       /\ (readerPc = "check" /\ readerPc' # "check" /\ HandlerTry(cur).err = "ValueError")
          => /\ readerPc' = "idle"
             /\ data' = data
             /\ raised' = ""]_vars

\* After a message that could not be decoded, the next message was merged.
C7_Witness ==
    /\ handled = 2
    /\ merges = 1
    /\ cur = PWR01
    /\ readerPc = "idle"
    /\ data.v["zone_main"].v["power"] = PyStr("power_on")

\* C8: no inbound message makes the handler raise into the read loop.
C8_HandlerNeverRaises == raised = ""

\* C9: every zone attribute of the state holds the value of the most recent
\* message that carried it, and its initial value when no message did.
C9_MergeKeepsOtherAttributes == ZoneAttrs(data.v) = carried

\* Power and volume of the main zone and power of zone 2 came with three
\* messages and are all in the state.
C9_Witness ==
    /\ handled = 3
    /\ data.v["zone_main"].v["power"] = PyStr("power_on")
    /\ data.v["zone_main"].v["volume"] = PyFloat(1, 2)
    /\ data.v["zone_zone2"].v["power"] = PyStr("power_on")

\* Invocations of listener l that are handed to the event loop and not run yet.
QueuedFor(l) ==
    Cardinality({i \in 1..Len(loopQueue) :
                    loopQueue[i].kind = "dispatch" /\ loopQueue[i].id = l})

\* C10 as stated: on every instance, every non-empty merge since a listener
\* was registered has one invocation of that listener, run or handed over.
C10_EveryMergeNotifiesAll ==
    \A l \in 1..Len(listeners) : notified[l] + QueuedFor(l) = merges - regAt[l]

\* C10 as amended: on an instance constructed with hass, every non-empty
\* merge hands one invocation of every registered listener, with the state
\* object, to the event loop; an instance constructed without hass merges
\* and invokes no listener.
C10_MergeNotifiesAllWithLoop ==
    /\ hass => C10_EveryMergeNotifiesAll
    /\ ~hass => (loopQueue = <<>> /\ \A l \in Listeners : notified[l] = 0)

\* Two listeners were both invoked after a merge.
C10_Witness ==
    /\ hass
    /\ Len(listeners) = 2
    /\ merges >= 1
    /\ notified[1] >= 1 /\ notified[2] >= 1

\* ------------------------------------------------------------ inventory
\* from_xml returned a ReceiverInfo for the generated document.
Parsed == xmlResult # NoDoc /\ xmlResult.err = ""

\* The <selector> element of the document with the given id, and the
\* <zone> and <selector> elements whose value is 0.
SelectorElemOf(id) ==
    CHOOSE j \in 1..Len(xmlDoc.selectors) : HexValue(xmlDoc.selectors[j].id) = id
AbsentZoneElems == {k \in 1..Len(xmlDoc.zones) : DecValue(xmlDoc.zones[k].value) = 0}
AbsentSelectorElems ==
    {j \in 1..Len(xmlDoc.selectors) : DecValue(xmlDoc.selectors[j].value) = 0}

\* Bit (z - 1) of a bitmask.
MaskBit(mask, z) == (mask \div (2 ^ (z - 1))) % 2 = 1

\* C17: in the parsed inventory a source is in an installed zone's source
\* list, and the zone in the source's zone list, exactly when bit (z - 1)
\* of the source's zone bitmask is set, z being the zone's id.
C17_SourcesFollowBitmask ==
    Parsed =>
        LET info == xmlResult.info
        IN  \A i \in 1..Len(info.zones), j \in 1..Len(info.sources) :
                LET mask == HexValue(xmlDoc.selectors[SelectorElemOf(info.sources[j].id)].zone)
                    bit == MaskBit(mask, info.zones[i].id)
                IN  /\ InSeq(j, info.zones[i].sources) <=> bit
                    /\ InSeq(i, info.sources[j].zones) <=> bit

\* A source with two bits set belongs to two zones, and another installed
\* zone does not list it.
C17_Witness ==
    /\ Parsed
    /\ \E j \in 1..Len(xmlResult.info.sources) :
          /\ Len(xmlResult.info.sources[j].zones) = 2
          /\ \E i \in 1..Len(xmlResult.info.zones) :
                ~InSeq(j, xmlResult.info.zones[i].sources)

\* C18: a zone whose value is 0 is in no zone list of the parsed inventory,
\* neither the inventory's nor a source's, and a selector whose value is 0
\* is in no source list, neither the inventory's nor a zone's.
C18_AbsentElementsExcluded ==
    Parsed =>
        LET info == xmlResult.info
        IN  /\ \A k \in AbsentZoneElems :
                  LET z == HexValue(xmlDoc.zones[k].id)
                  IN  /\ \A i \in 1..Len(info.zones) : info.zones[i].id # z
                      /\ \A j \in 1..Len(info.sources) :
                            \A n \in 1..Len(info.sources[j].zones) :
                                info.zones[info.sources[j].zones[n]].id # z
            /\ \A k \in AbsentSelectorElems :
                  LET sid == HexValue(xmlDoc.selectors[k].id)
                  IN  /\ \A j \in 1..Len(info.sources) : info.sources[j].id # sid
                      /\ \A i \in 1..Len(info.zones) :
                            \A n \in 1..Len(info.zones[i].sources) :
                                info.sources[info.zones[i].sources[n]].id # sid

\* An absent zone that an installed source's bitmask names, and an absent
\* selector that names an installed zone, were parsed.
C18_Witness ==
    /\ Parsed
    /\ \E k \in AbsentZoneElems : \E j \in 1..Len(xmlDoc.selectors) :
          /\ j \notin AbsentSelectorElems
          /\ MaskBit(HexValue(xmlDoc.selectors[j].zone), HexValue(xmlDoc.zones[k].id))
    /\ \E j \in AbsentSelectorElems : \E k \in 1..Len(xmlDoc.zones) :
          /\ k \notin AbsentZoneElems
          /\ MaskBit(HexValue(xmlDoc.selectors[j].zone), HexValue(xmlDoc.zones[k].id))

\* ------------------------------------------------------------ state store
\* A step of the inbound message handler that merges the updates of a
\* decoded message into data.
MergeStep ==
    \/ ReaderMerge
    \/ \E m \in AllMessages \cup {PWR01} : ReaderReceive(m)

\* Any step of the inbound message handler.
HandlerStep ==
    \/ MergeStep
    \/ \E m \in ModeMessages : ReaderTryMode(m)
    \/ ReaderPop

\* The zone attributes of the update that was in flight when the snapshot
\* s was read which the snapshot already shows, and those it does not show.
ShownInSnapshot(s) ==
    {k \in DOMAIN ZoneAttrs(s.during) :
        /\ ZoneAttrs(s.data.v)[k] = ZoneAttrs(s.during)[k]
        /\ ZoneAttrs(s.began.v)[k] # ZoneAttrs(s.during)[k]}
MissingInSnapshot(s) ==
    {k \in DOMAIN ZoneAttrs(s.during) : ZoneAttrs(s.data.v)[k] # ZoneAttrs(s.during)[k]}

\* C11: a read of data on the event loop never observes a torn state: of
\* the update of the message the reader thread is handling, the snapshot
\* shows either every attribute or none.
C11_SnapshotNotTorn ==
    seen # NoSnapshot => ShownInSnapshot(seen) = {} \/ MissingInSnapshot(seen) = {}

\* C19 (as stated): an entry of data changes only in a merge step of the
\* handler of a decoded inbound message.
C19_DataChangedOnlyByMerge == [][data' # data => MergeStep]_vars

\* C19 (amended): an entry of data changes only in a step of the inbound
\* message handler, of load_data or of command_udp_info; update, command,
\* raw, select_source, disconnect, register_listener and the read of the
\* state change none.
C19_DataChangedOnlyByHandlerLoadUdp ==
    [][data' # data =>
         \/ HandlerStep
         \/ \E st \in StoredData : LoadData(st)
         \/ \E r \in UdpReplies : CommandUdpInfo(r)]_vars

\* load_data has replaced the main zone's list of modes before any message
\* came, commands have been sent and the connection has been closed.
C19_Witness ==
    /\ handled = 0
    /\ data.v["zone_main"].v["sound_mode_list"] # PyList(<<>>)
    /\ outbox # <<>>
    /\ conn = "closed"

\* ------------------------------------------------------------- connection
\* Whether a callback that resumes waiter w is on its way to the event loop.
Unblocking(w) ==
    \E i \in 1..Len(loopQueue) : loopQueue[i].id = w /\ loopQueue[i].kind \in {"set", "wake"}

\* Whether the call of waiter w has ended, with a reply or a failure.
Ended(w) == waiters[w].pc \in {"returned", "timeout", "cancelled"}

\* C12: once disconnect() has closed the connection no awaited call is left
\* blocked: a waiter still waiting has its wake-up on the way.
C12_CloseUnblocksWaiters ==
    conn = "closed" => \A w \in Waiters : waiters[w].pc = "waiting" => Unblocking(w)

\* C13: every awaited call that was started ends, with the reply or with a
\* failure.
C13_EveryCallTerminates ==
    \A w \in Waiters : (waiters[w].pc \in {"registered", "waiting"}) ~> Ended(w)

\* C14: whenever a message is handed to the transport the socket has been
\* made connected first.
C14_SendEnsuresConnection == [][Len(outbox') > Len(outbox) => conn' = "up"]_vars

\* ---------------------------------------------------- inventory resolution
\* A step of get_all_receiver_info.
ResolutionStep ==
    \/ \E r \in UdpReplies : Attempt(r)
    \/ WaitReturns
    \/ FallbackCheck
    \/ FallbackAssign

\* C15: inventory resolution issues the self-description query at most 3
\* times; a further attempt is made only after an attempt whose query was
\* still pending when its wait ended, and that query task is cancelled
\* before the next attempt starts; and resolution always has a next step
\* until it is done, each attempt using up one of the 3 retries.
C15_ResolutionBounded ==
    /\ Len(tasks) <= 3
    /\ \A i \in 1..Len(tasks) : i < Len(tasks) => tasks[i] = "cancelled"
    /\ \A i \in 1..Len(tasks) : tasks[i] = "pending" => infoPc = "wait"
    /\ infoPc = "attempt" => retries > 0 /\ Len(tasks) + retries = 3
    /\ infoPc = "wait" => retries > 0 /\ Len(tasks) + retries = 4
    /\ infoPc \in {"attempt", "wait", "check", "assign"} => ENABLED ResolutionStep

\* Resolution has ended after three attempts, each cancelled at its deadline.
C15_Witness ==
    /\ infoPc = "done"
    /\ Len(tasks) = 3
    /\ \A i \in 1..3 : tasks[i] = "cancelled"

\* Whether a self-description was received and parsed: the handler merged
\* its ReceiverInfo into data.
SelfDescriptionReceived == data.v["receiver_information"].t = "info"

\* C16: when resolution has ended, the inventory is the parsed one if a
\* self-description was received, and else, with a discovery reply, the
\* default built from the reply's model name and identifier.
C16_InventoryAfterResolution ==
    infoPc = "done" =>
        IF SelfDescriptionReceived
        THEN receiver_info = data.v["receiver_information"]
        ELSE Truthy(receiver_udp_info) =>
                receiver_info = PyInfo(default(receiver_udp_info.v["model_name"].v,
                                               receiver_udp_info.v["identifier"].v))

\* -------------------------------------------------- order of registration
\* Whether the command of call w was handed to the transport.
Sent(w) == waiters[w].pc \in {"waiting", "woken", "returned", "timeout", "cancelled"}

ReaderStep == ReaderPop \/ ReaderSignal

\* A step taken by the reader thread.
ByReader == readerPc' # readerPc \/ handled' # handled \/ idx' # idx

SentNow == SubSeq(outbox', Len(outbox) + 1, Len(outbox'))

\* A step that is an update() cycle.
UpdateStep == outbox' # outbox /\ Len(SentNow) > 1

\* Whether the last report of the attribute that the handler merged was the
\* N/A answer: no item of the information has a value.
ReportedUnsupported(attr) ==
    /\ <<"zone_main", attr>> \in DOMAIN carried
    /\ carried[<<"zone_main", attr>>].t = "dict"
    /\ \A f \in DOMAIN carried[<<"zone_main", attr>>].v :
           carried[<<"zone_main", attr>>].v[f] = PyNone

\* C23: once the receiver has answered N/A for the audio information
\* (the video information), an update() cycle does not send the query of
\* that attribute.
C23_UnsupportedNotQueriedAgain ==
    [][UpdateStep =>
          /\ ReportedUnsupported("audio_info") => ~InSeq(Query(<<"I", "F", "A">>), SentNow)
          /\ ReportedUnsupported("video_info") => ~InSeq(Query(<<"I", "F", "V">>), SentNow)]_vars

\* The queries of a cycle that knows the inventory or not, without the
\* hdmi-output-selector query.
QueriesButHdmi ==
    {<<>>, <<Query(<<"N", "R", "I">>)>>} \X
    {<<Query(<<"P", "W", "R">>), Query(<<"M", "V", "L">>), Query(<<"I", "F", "A">>),
       Query(<<"I", "F", "V">>), Query(<<"L", "M", "D">>), Query(<<"P", "R", "S">>),
       Query(<<"A", "M", "T">>), Query(<<"S", "L", "I">>),
       Query(<<"Z", "P", "W">>), Query(<<"Z", "V", "L">>), Query(<<"Z", "M", "T">>),
       Query(<<"S", "L", "Z">>),
       Query(<<"P", "W", "3">>), Query(<<"V", "L", "3">>), Query(<<"M", "T", "3">>),
       Query(<<"S", "L", "3">>),
       Query(<<"P", "W", "4">>), Query(<<"V", "L", "4">>), Query(<<"M", "T", "4">>),
       Query(<<"S", "L", "4">>)>>}

\* C24: handling an hdmi-output-selector message with the N/A value clears
\* the HDMI-out capability flag; no step sets the flag again; and an
\* update() cycle that finds the flag cleared sends every query of a cycle
\* but the hdmi-output-selector query.
C24_HdmiOutPermanentlyUnsupported ==
    [][/\ (handled' = handled + 1 /\ cur' = HDONA) => ~hdmi_out_supported'
       /\ ~hdmi_out_supported => ~hdmi_out_supported'
       /\ (UpdateStep /\ ~hdmi_out_supported)
          => \E q \in QueriesButHdmi : SentNow = q[1] \o q[2]]_vars

\* After the N/A answer a later hdmi-output-selector report with a value was
\* handled, and the only cycle run since sent its queries without the
\* hdmi-output-selector query.
C24_Witness ==
    /\ ~hdmi_out_supported
    /\ handled = 2
    /\ cur = HDO01
    /\ readerPc = "idle"
    /\ InSeq(Query(<<"A", "M", "T">>), outbox)
    /\ ~InSeq(Query(<<"H", "D", "O">>), outbox)

\* Whether m is a source report of a known zone that ends in two hex digits.
SelectorWithHexId(m) ==
    /\ Prefix(m) \in DOMAIN COMMANDS
    /\ COMMANDS[Prefix(m)].name \in {"input-selector", "selector"}
    /\ \E i \in 1..Len(ZONE_NAMES) : ZONE_NAMES[i] = COMMANDS[Prefix(m)].zone
    /\ Len(m) = 5
    /\ IsHex(LastTwo(m))

\* C25: the handler of a source report of a known zone whose last two
\* characters are hex digits ends without exception and with the number they
\* spell as the zone's source in its updates, the only update of the
\* message, whether the command table has a value of that id or not; the
\* merge makes it the last value carried for the zone's source.
C25_SourceIdFromLastTwoChars ==
    [][(handled' = handled + 1 /\ SelectorWithHexId(cur'))
          => /\ readerPc' = "check"
             /\ raised' = raised
             /\ updates' = ZoneUpdate(COMMANDS[Prefix(cur')].zone, "source",
                                      PyInt(HexValue(LastTwo(cur'))))
             /\ carried'[<<ZoneKey(COMMANDS[Prefix(cur')].zone), "source">>]
                   = PyInt(HexValue(LastTwo(cur')))]_vars

\* The report SLI7F, whose id the command table does not have, was handled
\* after a report of the other zone: the main zone's source is 127 and zone
\* 2's is 2.
C25_Witness ==
    /\ handled = 2
    /\ cur = SLI7F
    /\ Args(SLI7F) \notin DOMAIN COMMANDS[Prefix(SLI7F)].values
    /\ carried[<<"zone_main", "source">>] = PyInt(127)
    /\ carried[<<"zone_zone2", "source">>] = PyInt(2)
    /\ data.v["zone_main"].v["source"] = PyInt(127)

\* ------------------------------------------------ the default inventory
\* The tokens of a selector command that are no source.
ReservedTokens == {<<"U", "P">>, <<"D", "O", "W", "N">>, <<"Q", "S", "T", "N">>}

\* Whether the command table declares id as a source value of zone z.
Declares(z, id) ==
    \E i \in 1..Len(SelectorValues(ZONE_NAMES[z])) :
        /\ SelectorValues(ZONE_NAMES[z])[i].id \notin ReservedTokens
        /\ HexValue(SelectorValues(ZONE_NAMES[z])[i].id) = id

\* Whether the resolved inventory is one built by ReceiverInfo.default.
IsDefaultInventory == receiver_info.t = "info" /\ receiver_info.v.productid = "N/A"

\* C26: in the default inventory every value of a zone's selector command
\* other than UP, DOWN and QSTN is a source of that zone; each id makes one
\* source, which is associated with exactly the zones that declare the id,
\* and whose zones list it in turn; and no source comes from a reserved
\* token.
C26_DefaultInventorySources ==
    IsDefaultInventory =>
        LET info == receiver_info.v
            Z == 1..Len(ZONE_NAMES)
            S == 1..Len(info.sources)
        IN  /\ Len(info.zones) = Len(ZONE_NAMES)
            /\ \A z \in Z : \A i \in 1..Len(SelectorValues(ZONE_NAMES[z])) :
                  LET v == SelectorValues(ZONE_NAMES[z])[i]
                  IN  v.id \notin ReservedTokens =>
                         \E k \in 1..Len(info.zones[z].sources) :
                            info.sources[info.zones[z].sources[k]].id = HexValue(v.id)
            /\ \A j1, j2 \in S : info.sources[j1].id = info.sources[j2].id => j1 = j2
            /\ \A j \in S, z \in Z :
                  /\ InSeq(z, info.sources[j].zones) <=> Declares(z, info.sources[j].id)
                  /\ InSeq(z, info.sources[j].zones) <=> InSeq(j, info.zones[z].sources)
            /\ \A j \in S :
                  /\ \E z \in Z : Declares(z, info.sources[j].id)
                  /\ info.sources[j].name \notin {"UP", "DOWN", "QUERY", "QSTN"}

\* Resolution ended with the default inventory: three sources, the one with
\* id 0x23, which every zone declares, associated with the four zones, and
\* FM with the main zone alone.
C26_Witness ==
    /\ infoPc = "done"
    /\ IsDefaultInventory
    /\ Len(receiver_info.v.sources) = 3
    /\ \E j \in 1..3 : /\ receiver_info.v.sources[j].id = 35
                       /\ receiver_info.v.sources[j].zones = <<1, 2, 3, 4>>
    /\ \E j \in 1..3 : /\ receiver_info.v.sources[j].name = "FM"
                       /\ receiver_info.v.sources[j].zones = <<1>>

\* ------------------------------------------- the inventory once resolved
\* A step in which the handler takes up a receiver-information message that
\* parses.
ParsedInfoStep ==
    /\ handled' = handled + 1
    /\ Prefix(cur') = <<"N", "R", "I">>
    /\ HandlerTry(cur').err = ""

\* C27: the resolved inventory changes only by being replaced with the
\* parse of a self-description that the handler takes up in that step (the
\* first resolution by the fallback, from no inventory to the default one,
\* apart); and once a self-description was parsed, the inventory is the
\* parse of the most recent one, which the handler also merged into data.
C27_InventoryReplacedOnlyByParse ==
    /\ [](SelfDescriptionReceived => receiver_info = data.v["receiver_information"])
    /\ [][receiver_info' # receiver_info =>
             \/ /\ ParsedInfoStep
                /\ receiver_info' = HandlerTry(cur').info
             \/ /\ receiver_info = PyNone
                /\ IsDefaultInventory']_vars

\* ------------------------------------------------------ setup of an entry
\* C28: when async_setup_entry has ended, it has returned False without a
\* coordinator if inventory resolution gave it no receiver information, and
\* it has created the coordinator and returned True if it gave some.
C28_SetupFollowsResolution ==
    setup.pc \in {"returned", "raised"} =>
        IF setup.info = PyNone
        THEN setup.result = "False" /\ ~setup.coordinator
        ELSE setup.result = "True" /\ setup.coordinator

\* ------------------------------------- registration beside the handler
\* C29: the step of raw_async that appends the waiter's event finds the
\* entry it looked up still in the correlation table under the command's
\* prefix, whatever the reader thread did since the lookup, so that the next
\* message with the prefix reaches the waiter.
C29_RegistrationOnLiveEntry ==
    [][\A w \in Waiters :
          (waiters[w].pc = "lookedup" /\ waiters'[w].pc = "registered")
             => /\ Prefix(waiters[w].cmd) \in DOMAIN syncCommands'
                /\ syncCommands'[Prefix(waiters[w].cmd)] = waiters[w].sc]_vars

\* ---------------------------------------- callers of get_receiver_info
\* C30: a call of get_receiver_info beside the resolving call returns only
\* when the resolution has ended, and what it returned is not an empty
\* inventory where the resolution has ended with one.
C30_CallWaitsForResolution ==
    second.pc = "returned" =>
        /\ second.at = "done"
        /\ (infoPc = "done" /\ receiver_info # PyNone) => second.result # PyNone

\* ------------------------------------------- one resolution per instance
\* A step of a later call of get_all_receiver_info.
LaterCallStep == second' # second

\* C31: the inventory queries are sent by one call of get_all_receiver_info
\* only: the flag that lets a call into the body is never cleared, a later
\* call sends nothing, starts no task and leaves the inventory and the
\* resolving call as they are, also when the resolution has ended with no
\* inventory.
C31_OneResolvingCall ==
    [][/\ retrieved_receiver_info => retrieved_receiver_info'
       /\ LaterCallStep =>
            /\ retrieved_receiver_info
            /\ UNCHANGED <<outbox, tasks, receiver_info, receiver_udp_info, infoPc, retries>>
       /\ (infoPc = "done" /\ ~LaterCallStep) => UNCHANGED <<outbox, tasks, infoPc, retries>>]_vars

\* A later call has returned after the resolution ended with no inventory,
\* the one query of each of the three attempts being all that was sent.
C31_Witness ==
    /\ second.pc = "returned"
    /\ second.at = "done"
    /\ second.result = PyNone
    /\ infoPc = "done"
    /\ receiver_info = PyNone
    /\ Len(outbox) = InfoRetries

\* ------------------------------------- correlation of undecoded messages
\* The reader thread takes up a message.
TakesUp == handled' = handled + 1

NoRepeats(q) == \A a, b \in 1..Len(q) : q[a] = q[b] => a = b

\* Zone i lists source j exactly when source j lists zone i, and no list
\* names an entry twice or an entry the inventory does not have.
Associated(info) ==
    /\ \A i \in 1..Len(info.zones), j \in 1..Len(info.sources) :
          InSeq(j, info.zones[i].sources) <=> InSeq(i, info.sources[j].zones)
    /\ \A i \in 1..Len(info.zones) :
          /\ NoRepeats(info.zones[i].sources)
          /\ \A k \in 1..Len(info.zones[i].sources) :
                info.zones[i].sources[k] \in 1..Len(info.sources)
    /\ \A j \in 1..Len(info.sources) :
          /\ NoRepeats(info.sources[j].zones)
          /\ \A k \in 1..Len(info.sources[j].zones) :
                info.sources[j].zones[k] \in 1..Len(info.zones)

\* C33: in every ReceiverInfo that from_xml or default builds, a zone is in
\* a source's zones list exactly when the source is in the zone's sources
\* list, and neither list holds an entry twice.
C33_AssociationSymmetric ==
    /\ (xmlResult # NoDoc /\ xmlResult.err = "") => Associated(xmlResult.info)
    /\ receiver_info.t = "info" => Associated(receiver_info.v)

\* The default inventory was built, and from_xml has parsed a document in
\* which two installed zones share an id that a source's bitmask names: the
\* source lists one zone object, once.
C33_Witness ==
    /\ IsDefaultInventory
    /\ \E z \in 1..Len(receiver_info.v.zones) : Len(receiver_info.v.zones[z].sources) > 1
    /\ xmlResult # NoDoc
    /\ xmlResult.err = ""
    /\ Len(xmlResult.info.zones) >= 2
    /\ xmlResult.info.zones[1].id = xmlResult.info.zones[2].id
    /\ \E j \in 1..Len(xmlResult.info.sources) :
          /\ xmlResult.info.sources[j].zones = <<2>>
          /\ xmlResult.info.zones[2].sources = <<j>>
          /\ xmlResult.info.zones[1].sources = <<>>

\* ---------------------------------------------- the current mode is listed
\* The list data[zone_key]['sound_mode_list'].
ModeList(zone_key) == data.v[zone_key].v["sound_mode_list"].v

\* C34: in the state, the current sound_mode of a zone, when set, is one of
\* the zone's sound_mode_list, and the list names no mode twice.
C34_CurrentModeIsListed ==
    \A zk \in ZoneKeys :
        /\ data.v[zk].v["sound_mode"] # PyNone =>
              InSeq(data.v[zk].v["sound_mode"].v, ModeList(zk))
        /\ NoRepeats(ModeList(zk))

\* --------------------------------------- user step of hass_onkyo_ng
\* The user step has returned for a submitted host that is an IP address.
UserStepEnded ==
    userFlow.pc = "idle" /\ userFlow.input # PyNone /\ host_valid(userFlow.input.host)

\* C35: for a valid IP address of a reachable receiver with no entry yet,
\* the user step ends by creating an entry, not with the form and a
\* connection error; and every OnkyoReceiver the step created is
\* disconnected when the step has returned.
C35_UserStepCreatesEntry ==
    /\ UserStepEnded => userFlow.result.type = "create_entry"
    /\ userFlow.pc = "idle" => (userFlow.disconnected = userFlow.created /\
                                (userFlow.created > 0 => conn = "closed"))

\* --------------------------------------- zeroconf flow of hass_onkyo_ng
\* C36: when zeroconf reports a receiver that discovery finds and that has
\* no entry yet, the zeroconf step ends with the form zeroconf_confirm, and
\* no exception ends it.
C36_ZeroconfShowsConfirmForm ==
    (zcFlow.pc = "done" /\ zcFlow.found /\ ~zcFlow.configured) =>
        /\ zcFlow.result.type = "form"
        /\ zcFlow.result.step_id = "zeroconf_confirm"


\* An entry of the flow's result or of the reconfigured entry was written
\* by the step: the flow created an entry, or updated the one it works on.
NgCreated == ngFlow.result.type = "create_entry"
NgUpdated == ngFlow.entry # ngFlow.before

\* C37: the configure_receiver step neither creates nor updates an entry
\* from a submission whose list of input sources or of listening modes is
\* empty: it shows the form again with the error empty_input_source_list or
\* empty_listening_mode_list, so every entry it creates or updates has a
\* non-empty map of sources and a non-empty map of modes.
C37_EmptyListsRejected ==
    /\ (/\ ngFlow.input # PyNone
        /\ (ngFlow.input.input_sources = <<>> \/ ngFlow.input.listening_modes = <<>>))
       => /\ ~NgCreated /\ ~NgUpdated
          /\ ngFlow.pc = "form"
          /\ ngFlow.result.type = "form"
          /\ ngFlow.result.step_id = "configure_receiver"
          /\ ngFlow.result.errors \in
                {[k \in {"input_sources"} |-> "empty_input_source_list"],
                 [k \in {"listening_modes"} |-> "empty_listening_mode_list"]}
          /\ ("input_sources" \in DOMAIN ngFlow.result.errors
                <=> ngFlow.input.input_sources = <<>>)
    /\ NgCreated
       => /\ DOMAIN ngFlow.result.options.input_sources # {}
          /\ DOMAIN ngFlow.result.options.listening_modes # {}
    /\ NgUpdated
       => /\ DOMAIN ngFlow.entry.options.input_sources # {}
          /\ DOMAIN ngFlow.entry.options.listening_modes # {}

\* C37 witness: a submission with sources but no listening mode was shown
\* the form again with the error, nothing created or updated.
C37_Witness ==
    /\ ngFlow.input # PyNone
    /\ ngFlow.input.input_sources # <<>>
    /\ ngFlow.input.listening_modes = <<>>
    /\ ngFlow.result.type = "form"
    /\ ngFlow.result.errors = [k \in {"listening_modes"} |-> "empty_listening_mode_list"]
    /\ ~NgCreated /\ ~NgUpdated

\* C38: a reconfigure keeps the entry's max_volume and the name the entry
\* holds for every source and mode that stays selected; a newly selected
\* one is named by its meaning, and one no longer selected is removed.
ReconfiguredStore(meanings, selected, old, new) ==
    /\ DOMAIN new = {from_meaning(meanings, selected[i]) : i \in 1..Len(selected)}
    /\ \A v \in DOMAIN new : new[v] = IF v \in DOMAIN old THEN old[v] ELSE meanings[v]
C38_ReconfigureKeepsNames ==
    (ngFlow.source = "reconfigure" /\ ngFlow.pc = "done")
    => /\ ngFlow.result.type = "abort"
       /\ ngFlow.entry.options.max_volume = ngFlow.before.options.max_volume
       /\ ReconfiguredStore(INPUT_SOURCE_MEANINGS, ngFlow.input.input_sources,
                            ngFlow.before.options.input_sources,
                            ngFlow.entry.options.input_sources)
       /\ ReconfiguredStore(LISTENING_MODES_MEANINGS, ngFlow.input.listening_modes,
                            ngFlow.before.options.listening_modes,
                            ngFlow.entry.options.listening_modes)

\* C38 witness: a reconfigure of an entry with max_volume 42 kept the name
\* "My CD", named the new source FM by its meaning, and dropped the TV.
C38_Witness ==
    /\ ngFlow.source = "reconfigure" /\ ngFlow.pc = "done"
    /\ ngFlow.before.options.max_volume = 42
    /\ ngFlow.entry.options.max_volume = 42
    /\ ngFlow.entry.options.input_sources =
          [v \in {"23", "24"} |-> IF v = "23" THEN "My CD" ELSE "FM"]
    /\ ngFlow.entry.options.listening_modes =
          [v \in {"00", "01"} |-> IF v = "00" THEN "Music" ELSE "DIRECT"]

====
